---- MODULE Spec2Model ----
(***************************************************************************)
(* Model of the reconciliation cycle of btcmap-api (src/src/sync.rs).      *)
(*                                                                         *)
(* The store is a pair of table sets: db is the committed content of the   *)
(* SQLite file, tx the content seen and written by the open transaction.   *)
(* One sync() call is cut at its loop iterations: every iteration of the   *)
(* deletion loop and of the upsert loop is one action, so that a crash, a  *)
(* panic or process::exit can fall between any two of them.                *)
(*                                                                         *)
(* The fetched dataset is a sequence of explicit items over a small key    *)
(* universe (keys may repeat: sync() does not deduplicate the response)    *)
(* followed by an optional block of BulkSize further elements whose keys   *)
(* lie outside that universe and whose payloads never change.  The block   *)
(* makes the 5000-element guard of sync.rs:89 reachable with its real      *)
(* value; it is processed in one aggregated step.                          *)
(***************************************************************************)
EXTENDS Integers, Sequences, FiniteSets, TLC

\* ---------------------------------------------------------------- bounds
MaxOsmId == 2
MaxUid == 1
MaxFresh == 2
MaxCycles == 2
MaxDay == 2
BulkSize == 4999

\* ------------------------------------------------------ program constants
MinFreshElements == 5000

NULL == 0

\* ------------------------------------------------------------ data values
OsmIds == 1..MaxOsmId
Uids == 0..MaxUid
Days == 1..MaxDay

\* display name that upstream reports next to a uid
UserName(uid) == IF uid = 0 THEN "" ELSE "user"

\* the tag map of an element that accepts on-chain payments.  A date value is
\* a day number (the order of ISO date strings is the order of the days); the
\* survey date and the check date both lie more than 365 days before the first
\* day of the clock
OnchainTags ==
    {<<"payment:onchain", "yes">>, <<"survey:date", 0 - 366>>, <<"check_date", 0 - 366>>}

\* the payloads upstream can report for one key: the attributing uid and the
\* tag map, a set of <<key, value>> pairs
Payloads ==
    { [uid |-> 0, tags |-> {}],
      [uid |-> MaxUid, tags |-> OnchainTags] }

\* it["tags"][name].as_str().unwrap_or("")
Tag(it, name) ==
    IF \E p \in it.tags : p[1] = name
    THEN (CHOOSE p \in it.tags : p[1] = name)[2]
    ELSE ""

\* one element of the Overpass response
Items ==
    { [type |-> "node", id |-> i, uid |-> p.uid, user |-> UserName(p.uid), tags |-> p.tags] :
        i \in OsmIds, p \in Payloads }

\* format!("{}:{}", type, id)
BtcmapId(type, id) == <<type, id>>

ItemKey(it) == BtcmapId(it.type, it.id)

\* serde_json::to_string: the object's members in key order
ToJsonString(v) == <<v.id, v.tags, v.type, v.uid, v.user>>

\* the data column read back by mapper_element_full
FromJsonString(s) == [id |-> s[1], tags |-> s[2], type |-> s[3], uid |-> s[4], user |-> s[5]]

RECURSIVE SeqsUpTo(_, _)
SeqsUpTo(S, n) ==
    IF n = 0 THEN { <<>> }
    ELSE LET shorter == SeqsUpTo(S, n - 1)
         IN  shorter \cup { Append(s, x) : s \in { q \in shorter : Len(q) = n - 1 }, x \in S }

\* the responses the upstream fetch can deliver
FreshDatasets == { [items |-> s, bulk |-> b] : s \in SeqsUpTo(Items, MaxFresh), b \in BOOLEAN }

\* fresh_elements.len()
FreshLen(f) == Len(f.items) + (IF f.bulk THEN BulkSize ELSE 0)

\* fresh_element_ids of the explicit items
FreshElementIds(f) == { ItemKey(f.items[i]) : i \in 1..Len(f.items) }

EmptyFresh == [items |-> <<>>, bulk |-> FALSE]

\* answers of the secondary source for one element: no record, or a record
\* with its visible flag ("absent" when the member is missing), its
\* currency:XBT and payment:bitcoin tags and its uid
NoRecord == [asked |-> TRUE, found |-> FALSE]
BitcoinTags ==
    { [xbt |-> "no", legacy |-> "no"], [xbt |-> "yes", legacy |-> "no"],
      [xbt |-> "no", legacy |-> "yes"] }
SecondaryRecords ==
    { [asked |-> TRUE, found |-> TRUE, visible |-> v, xbt |-> t.xbt, legacy |-> t.legacy,
       uid |-> u] :
        v \in {"true", "false", "absent"}, t \in BitcoinTags, u \in {0, MaxUid} }
SecondaryResults == {NoRecord} \cup SecondaryRecords

\* -------------------------------------------------------------- the state
VARIABLES
    db,        \* committed tables
    tx,        \* tables as the open transaction sees them (= db when none is open)
    pc,        \* position of sync(): idle, delete, upsert, bulk, report, commit
    fresh,     \* fresh_elements of the running cycle
    elements,  \* the snapshot loaded at the start of the cycle
    idx,       \* loop position in the current pass
    counters,  \* elements_created / elements_updated / elements_deleted
    msgs,      \* messages handed to send_discord_message in this cycle
    sec,       \* the secondary record seen by the last deletion step
    outcome,   \* how the last sync() call ended
    lastIds,   \* keys of the dataset of the most recent committed cycle
    today,     \* the clock, in days
    cycles,    \* number of sync() calls so far that got a response
    actor,     \* what insert_user_if_not_exists did in the last step
    seen,      \* the response of GET /v2/elements served in the last step
    delivery,  \* what became of the message that the last step handed to the notifier
    run2       \* a second run of generate_reports, started while the first may be open

vars ==
    <<db, tx, pc, fresh, elements, idx, counters, msgs, sec, outcome, lastIds, today, cycles,
      actor, seen, delivery, run2>>

EmptyStore ==
    [element |-> <<>>, bulk |-> FALSE, event |-> <<>>, user |-> <<>>, report |-> <<>>,
     area |-> <<>>]

ZeroCounters == [created |-> 0, updated |-> 0, deleted |-> 0]

NoLookup == [asked |-> FALSE, found |-> FALSE]

\* send_discord_message: without DISCORD_WEBHOOK_URL nothing is sent; with it
\* the request is answered (whatever the status) or fails, which is logged
Deliveries == {"not_configured", "delivered", "failed"}

\* a notifier from which a failed delivery does not return
SendOrDie(d) == d # "failed"

\* send_discord_message returns to its caller, whatever became of the message
SendReturns(d) == TRUE

\* no second run of generate_reports: nothing read, no transaction open
NoRun == [pc |-> "idle", elements |-> [rows |-> <<>>, bulk |-> FALSE], idx |-> 0, report |-> <<>>]

\* no request served
NoResponse == [served |-> FALSE, items |-> <<>>, bulk |-> FALSE]

\* no call of insert_user_if_not_exists
NoActor == [called |-> FALSE, uid |-> 0, read |-> FALSE, lookup |-> "none", inserted |-> FALSE]

\* ------------------------------------------------------------ store access
\* position of the row with this id, 0 when there is none
RowIndex(rows, id) ==
    IF \E i \in 1..Len(rows) : rows[i].id = id
    THEN CHOOSE i \in 1..Len(rows) : rows[i].id = id
    ELSE 0

HasRow(rows, id) == RowIndex(rows, id) # 0

\* the element table's updated_at column follows every UPDATE of the row
Touch(row, now) == [row EXCEPT !.updated_at = now]

\* ELEMENT_INSERT: a new row, deleted_at NULL
ElementInsert(rows, id, data, now) ==
    Append(rows, [id |-> id, data |-> data, updated_at |-> now, deleted_at |-> NULL])

\* UPDATE element SET data = ? WHERE id = ?
ElementSetData(rows, id, data, now) ==
    [i \in 1..Len(rows) |->
        IF rows[i].id = id THEN Touch([rows[i] EXCEPT !.data = data], now) ELSE rows[i]]

\* the soft delete bound to a key no row has: nothing is updated
ElementSetDeletedAtNoRow(rows, id, now) == rows

\* UPDATE element SET deleted_at = strftime(...) WHERE id = ?
ElementSetDeletedAt(rows, id, now) ==
    [i \in 1..Len(rows) |->
        IF rows[i].id = id THEN Touch([rows[i] EXCEPT !.deleted_at = now], now) ELSE rows[i]]

\* the revival bound to a key no row has: nothing is updated
ElementClearDeletedAtNoRow(rows, id, now) == rows

\* UPDATE element SET deleted_at = NULL WHERE id = ?
ElementClearDeletedAt(rows, id, now) ==
    [i \in 1..Len(rows) |->
        IF rows[i].id = id THEN Touch([rows[i] EXCEPT !.deleted_at = NULL], now) ELSE rows[i]]

\* EVENT_INSERT
EventInsert(events, id, type, uid, user, now, n) ==
    Append(events, [element_id |-> id, type |-> type, user_id |-> uid, user |-> user,
                    date |-> now, n |-> n])

\* a lookup that finds no row of the user table
UserSelectNoRow(users, uid) == 0

\* USER_SELECT_BY_ID: position of the row, 0 for none
UserSelectById(users, uid) ==
    IF \E i \in 1..Len(users) : users[i].id = uid
    THEN CHOOSE i \in 1..Len(users) : users[i].id = uid
    ELSE 0

\* USER_INSERT: the row holds the id and the user object of the response
UserInsert(users, uid) ==
    Append(users, [id |-> uid, osm_json |-> [id |-> uid, display_name |-> UserName(uid)]])

\* a resolution without the test for the id 0
InsertUserAlsoZero(users, uid, found) ==
    IF UserSelectById(users, uid) # 0
    THEN [users |-> users,
          did |-> [called |-> TRUE, uid |-> uid, read |-> TRUE, lookup |-> "none",
                   inserted |-> FALSE]]
    ELSE IF ~found
    THEN [users |-> users,
          did |-> [called |-> TRUE, uid |-> uid, read |-> TRUE, lookup |-> "failed",
                   inserted |-> FALSE]]
    ELSE [users |-> UserInsert(users, uid),
          did |-> [called |-> TRUE, uid |-> uid, read |-> TRUE, lookup |-> "ok",
                   inserted |-> TRUE]]

\* a resolution that inserts a row for the id whatever the lookup returned
InsertUserAlsoOnFailure(users, uid, found) ==
    IF uid = 0
    THEN [users |-> users,
          did |-> [called |-> TRUE, uid |-> uid, read |-> FALSE, lookup |-> "none",
                   inserted |-> FALSE]]
    ELSE IF UserSelectById(users, uid) # 0
    THEN [users |-> users,
          did |-> [called |-> TRUE, uid |-> uid, read |-> TRUE, lookup |-> "none",
                   inserted |-> FALSE]]
    ELSE [users |-> UserInsert(users, uid),
          did |-> [called |-> TRUE, uid |-> uid, read |-> TRUE,
                   lookup |-> IF found THEN "ok" ELSE "failed", inserted |-> TRUE]]

\* insert_user_if_not_exists; found tells whether the OSM user lookup came
\* back with a user object.  The result is the user table after the call and
\* what the call did: the read of the table, the lookup, the insert
InsertUserIfNotExists(users, uid, found) ==
    IF uid = 0
    THEN [users |-> users,
          did |-> [called |-> TRUE, uid |-> uid, read |-> FALSE, lookup |-> "none",
                   inserted |-> FALSE]]
    ELSE IF UserSelectById(users, uid) # 0
    THEN [users |-> users,
          did |-> [called |-> TRUE, uid |-> uid, read |-> TRUE, lookup |-> "none",
                   inserted |-> FALSE]]
    ELSE IF ~found
    THEN [users |-> users,
          did |-> [called |-> TRUE, uid |-> uid, read |-> TRUE, lookup |-> "failed",
                   inserted |-> FALSE]]
    ELSE [users |-> UserInsert(users, uid),
          did |-> [called |-> TRUE, uid |-> uid, read |-> TRUE, lookup |-> "ok",
                   inserted |-> TRUE]]

\* the rows of ELEMENT_SELECT_ALL as Element values
LoadElements(t) ==
    [rows |-> [i \in 1..Len(t.element) |->
                  [id |-> t.element[i].id, data |-> FromJsonString(t.element[i].data),
                   deleted_at |-> t.element[i].deleted_at]],
     bulk |-> t.bulk]

\* ----------------------------------------------------------------- clock
\* a new day begins between two cycles
Tick ==
    /\ pc = "idle"
    /\ today < MaxDay
    /\ today' = today + 1
    /\ seen' = NoResponse
    /\ delivery' = "none"
    /\ run2' = run2
    /\ UNCHANGED <<db, tx, pc, fresh, elements, idx, counters, msgs, sec, actor, outcome, lastIds, cycles>>

\* -------------------------------------------------------- start of sync()
\* the three early returns of sync() before the dataset is in hand: the request
\* fails, the body is no JSON, or the body has no elements array
FetchFailures == {"request_failed", "body_unreadable", "no_elements"}

\* a call that sends the request again after a failure and holds a dataset
\* when it returns
FetchFailRetries ==
    /\ pc = "idle"
    /\ \E k \in FetchFailures : outcome' = k
    /\ msgs' = <<>>
    /\ sec' = NoLookup
    /\ actor' = NoActor
    /\ seen' = NoResponse
    /\ delivery' = "none"
    /\ run2' = run2
    /\ \E f \in FreshDatasets : fresh' = f
    /\ UNCHANGED <<db, tx, pc, elements, idx, counters, lastIds, today, cycles>>

\* sync() returns at the failure: one request, no dataset, nothing opened
FetchFail ==
    /\ pc = "idle"
    /\ \E k \in FetchFailures : outcome' = k
    /\ msgs' = <<>>
    /\ sec' = NoLookup
    /\ actor' = NoActor
    /\ seen' = NoResponse
    /\ delivery' = "none"
    /\ run2' = run2
    /\ fresh' = EmptyFresh
    /\ UNCHANGED <<db, tx, pc, elements, idx, counters, lastIds, today, cycles>>

\* a rejection that has already written the report row of the response
SyncRejectSmallWritesReport ==
    /\ pc = "idle"
    /\ cycles < MaxCycles
    /\ \E f \in FreshDatasets :
        /\ FreshLen(f) < MinFreshElements
        /\ fresh' = f
        /\ db' = [db EXCEPT !.report = Append(db.report, [area_id |-> "", date |-> today,
                                                          total_elements |-> FreshLen(f)])]
    /\ tx' = db'
    /\ outcome' = "rejected"
    /\ msgs' = << [kind |-> "suspicious", id |-> <<>>] >>
    /\ sec' = NoLookup
    /\ actor' = NoActor
    /\ seen' = NoResponse
    /\ \E d \in Deliveries : delivery' = d /\ SendReturns(d)
    /\ run2' = run2
    /\ cycles' = cycles + 1
    /\ UNCHANGED <<pc, elements, idx, counters, lastIds, today>>

\* fresh_elements.len() < 5000: the message goes out and sync() returns
SyncRejectSmall ==
    /\ pc = "idle"
    /\ cycles < MaxCycles
    /\ \E f \in FreshDatasets :
        /\ FreshLen(f) < MinFreshElements
        /\ fresh' = f
    /\ outcome' = "rejected"
    /\ msgs' = << [kind |-> "suspicious", id |-> <<>>] >>
    /\ sec' = NoLookup
    /\ actor' = NoActor
    /\ seen' = NoResponse
    /\ \E d \in Deliveries : delivery' = d /\ SendReturns(d)
    /\ run2' = run2
    /\ cycles' = cycles + 1
    /\ UNCHANGED <<db, tx, pc, elements, idx, counters, lastIds, today>>

\* the first phase that has work, in the order of sync(): deletion loop,
\* upsert loop over the explicit items, the bulk block, the report
BulkEntry(f) == IF f.bulk THEN "bulk" ELSE "report"

UpsertEntry(f) == IF Len(f.items) > 0 THEN "upsert" ELSE BulkEntry(f)

\* where the deletion loop stands after its step i
AfterDelete(els, f, i) == IF i < Len(els.rows) THEN "delete" ELSE UpsertEntry(f)

\* an upsert loop that is followed by the deletion loop once more
AfterUpsertDeleteAgain(f, i) == IF i < Len(f.items) THEN "upsert" ELSE "delete"

\* where the upsert loop stands after its step i
AfterUpsert(f, i) == IF i < Len(f.items) THEN "upsert" ELSE BulkEntry(f)

\* the transaction opens and the snapshot is loaded
SyncBegin ==
    /\ pc = "idle"
    /\ cycles < MaxCycles
    /\ \E f \in FreshDatasets :
        /\ ~(FreshLen(f) < MinFreshElements)
        /\ fresh' = f
        /\ pc' = AfterDelete(LoadElements(db), f, 0)
    /\ tx' = db
    /\ elements' = LoadElements(db)
    /\ idx' = 1
    /\ counters' = ZeroCounters
    /\ msgs' = <<>>
    /\ sec' = NoLookup
    /\ actor' = NoActor
    /\ seen' = NoResponse
    /\ delivery' = "none"
    /\ run2' = run2
    /\ outcome' = "running"
    /\ cycles' = cycles + 1
    /\ UNCHANGED <<db, lastIds, today>>

\* a cycle whose statements are not held back by the transaction: what was
\* written stays when the cycle stops
RollbackKeepsWrites(how) ==
    /\ db' = tx
    /\ tx' = tx
    /\ pc' = "idle"
    /\ outcome' = how
    /\ elements' = [rows |-> <<>>, bulk |-> FALSE]
    /\ idx' = 0
    /\ counters' = ZeroCounters
    /\ fresh' = EmptyFresh
    /\ UNCHANGED <<lastIds, today, cycles>>

\* ------------------------------------------------------- end of a cycle
\* the transaction is dropped without commit: every staged write is gone
Rollback(how) ==
    /\ tx' = db
    /\ pc' = "idle"
    /\ outcome' = how
    /\ elements' = [rows |-> <<>>, bulk |-> FALSE]
    /\ idx' = 0
    /\ counters' = ZeroCounters
    /\ fresh' = EmptyFresh
    /\ UNCHANGED <<db, lastIds, today, cycles>>

\* ------------------------------------------------------- deletion loop
\* visible defaulting to false: a record without the member counts as deleted
DeletedFromOsmDefaultFalse(r) == ~(IF r.found THEN r.visible = "true" ELSE TRUE)

\* it["visible"].as_bool().unwrap_or(true), negated
DeletedFromOsm(r) == ~(IF r.found THEN r.visible # "false" ELSE TRUE)

\* the secondary record still carries currency:XBT=yes or payment:bitcoin=yes
StillAcceptsBitcoin(r) == r.xbt = "yes" \/ r.legacy = "yes"

\* the membership test without its negation
PresentAndLive(el, f) == el.id \in FreshElementIds(f) /\ el.deleted_at = NULL

\* the membership test alone: a soft-deleted element passes as well
MissingFromFresh(el, f) == ~(el.id \in FreshElementIds(f))

\* the element is missing from the response and not yet soft-deleted
MissingAndLive(el, f) == ~(el.id \in FreshElementIds(f)) /\ el.deleted_at = NULL

Advance(next) ==
    /\ pc' = next
    /\ idx' = IF next = pc THEN idx + 1 ELSE 1

\* the element is still reported, or already soft-deleted: nothing to do
DeleteSkip ==
    /\ pc = "delete"
    /\ ~MissingAndLive(elements.rows[idx], fresh)
    /\ Advance(AfterDelete(elements, fresh, idx))
    /\ sec' = NoLookup
    /\ actor' = NoActor
    /\ seen' = NoResponse
    /\ delivery' = "none"
    /\ run2' = run2
    /\ UNCHANGED <<db, tx, fresh, elements, counters, msgs, outcome, lastIds, today, cycles>>

\* fetch_element returned None: the unwrap of line 162 panics
DeletePanic ==
    /\ pc = "delete"
    /\ MissingAndLive(elements.rows[idx], fresh)
    /\ sec' = NoRecord
    /\ actor' = NoActor
    /\ seen' = NoResponse
    /\ delivery' = "none"
    /\ run2' = run2
    /\ ~DeletedFromOsm(NoRecord)
    /\ msgs' = msgs
    /\ Rollback("panic")

\* the secondary source still reports the element as bitcoin-accepting
DeleteContradiction ==
    /\ pc = "delete"
    /\ MissingAndLive(elements.rows[idx], fresh)
    /\ \E r \in SecondaryRecords :
        /\ ~DeletedFromOsm(r)
        /\ StillAcceptsBitcoin(r)
        /\ sec' = r
        /\ actor' = NoActor
        /\ seen' = NoResponse
        /\ \E d \in Deliveries : delivery' = d /\ SendReturns(d)
        /\ run2' = run2
    /\ msgs' = Append(msgs, [kind |-> "lied", id |-> elements.rows[idx].id])
    /\ Rollback("contradiction")

\* the delete event, the message and the soft delete of one element
DeleteApply ==
    /\ pc = "delete"
    /\ MissingAndLive(elements.rows[idx], fresh)
    /\ \E r \in SecondaryRecords, found \in BOOLEAN :
        /\ DeletedFromOsm(r) \/ ~StillAcceptsBitcoin(r)
        /\ sec' = r
        /\ actor' = InsertUserIfNotExists(tx.user, r.uid, found).did
        /\ seen' = NoResponse
        /\ \E d \in Deliveries : delivery' = d /\ SendReturns(d)
        /\ run2' = run2
        /\ tx' = [tx EXCEPT
                !.user = InsertUserIfNotExists(tx.user, r.uid, found).users,
                !.event = EventInsert(tx.event, elements.rows[idx].id, "delete",
                                      r.uid, UserName(r.uid), today, 1),
                !.element = ElementSetDeletedAt(tx.element, elements.rows[idx].id, today)]
    /\ msgs' = Append(msgs, [kind |-> "deleted", id |-> elements.rows[idx].id])
    /\ counters' = [counters EXCEPT !.deleted = counters.deleted + 1]
    /\ Advance(AfterDelete(elements, fresh, idx))
    /\ UNCHANGED <<db, fresh, elements, outcome, lastIds, today, cycles>>

\* --------------------------------------------------------- upsert loop
\* elements.iter().find(|it| it.id == btcmap_id) on the loaded snapshot
FindElement(els, id) == RowIndex(els.rows, id)

\* a comparison that never finds the two strings equal
DataAlwaysDiffers(el, it) == TRUE

\* element_data != fresh_element_data
DataDiffers(el, it) == ToJsonString(el.data) # ToJsonString(it)

\* a stored element whose payload changed: update event, message, new data;
\* a soft-deleted one is revived as well
UpsertUpdate ==
    /\ pc = "upsert"
    /\ LET it == fresh.items[idx]
           id == ItemKey(it)
           i  == FindElement(elements, id)
       IN  /\ i # 0
           /\ DataDiffers(elements.rows[i], it)
           /\ \E found \in BOOLEAN :
               /\ actor' = InsertUserIfNotExists(tx.user, it.uid, found).did
               /\ seen' = NoResponse
               /\ \E d \in Deliveries : delivery' = d /\ SendReturns(d)
               /\ run2' = run2
               /\ tx' = [tx EXCEPT
                      !.user = InsertUserIfNotExists(tx.user, it.uid, found).users,
                      !.event = EventInsert(tx.event, id, "update", it.uid, it.user, today, 1),
                      !.element =
                          IF elements.rows[i].deleted_at # NULL
                          THEN ElementClearDeletedAt(
                                   ElementSetData(tx.element, id, ToJsonString(it), today), id, today)
                          ELSE ElementSetData(tx.element, id, ToJsonString(it), today)]
           /\ msgs' = Append(msgs, [kind |-> "updated", id |-> id])
    /\ counters' = [counters EXCEPT !.updated = counters.updated + 1]
    /\ Advance(AfterUpsert(fresh, idx))
    /\ sec' = NoLookup
    /\ UNCHANGED <<db, fresh, elements, outcome, lastIds, today, cycles>>

\* a revival that also records an update event
UpsertReviveWithEvent ==
    /\ pc = "upsert"
    /\ LET it == fresh.items[idx]
           id == ItemKey(it)
           i  == RowIndex(elements.rows, id)
       IN  /\ i # 0
           /\ ToJsonString(elements.rows[i].data) = ToJsonString(it)
           /\ elements.rows[i].deleted_at # NULL
           /\ tx' = [tx EXCEPT
                   !.event = EventInsert(tx.event, id, "update", it.uid, it.user, today, 1),
                   !.element = ElementClearDeletedAt(tx.element, id, today)]
    /\ Advance(AfterUpsert(fresh, idx))
    /\ sec' = NoLookup
    /\ actor' = NoActor
    /\ seen' = NoResponse
    /\ delivery' = "none"
    /\ run2' = run2
    /\ UNCHANGED <<db, fresh, elements, counters, msgs, outcome, lastIds, today, cycles>>

\* a soft-deleted element reappears with the stored payload: deleted_at is cleared
UpsertRevive ==
    /\ pc = "upsert"
    /\ LET it == fresh.items[idx]
           id == ItemKey(it)
           i  == FindElement(elements, id)
       IN  /\ i # 0
           /\ ~DataDiffers(elements.rows[i], it)
           /\ elements.rows[i].deleted_at # NULL
           /\ tx' = [tx EXCEPT !.element = ElementClearDeletedAt(tx.element, id, today)]
    /\ Advance(AfterUpsert(fresh, idx))
    /\ sec' = NoLookup
    /\ actor' = NoActor
    /\ seen' = NoResponse
    /\ delivery' = "none"
    /\ run2' = run2
    /\ UNCHANGED <<db, fresh, elements, counters, msgs, outcome, lastIds, today, cycles>>

\* a stored, live element with the stored payload: no write
UpsertNoop ==
    /\ pc = "upsert"
    /\ LET it == fresh.items[idx]
           i  == FindElement(elements, ItemKey(it))
       IN  /\ i # 0
           /\ ~DataDiffers(elements.rows[i], it)
           /\ elements.rows[i].deleted_at = NULL
    /\ Advance(AfterUpsert(fresh, idx))
    /\ sec' = NoLookup
    /\ actor' = NoActor
    /\ seen' = NoResponse
    /\ delivery' = "none"
    /\ run2' = run2
    /\ UNCHANGED <<db, tx, fresh, elements, counters, msgs, outcome, lastIds, today, cycles>>

\* a creation that leaves out the audit event
UpsertCreateNoEvent ==
    /\ pc = "upsert"
    /\ LET it == fresh.items[idx]
           id == ItemKey(it)
       IN  /\ RowIndex(elements.rows, id) = 0
           /\ ~HasRow(tx.element, id)
           /\ \E found \in BOOLEAN :
               /\ actor' = InsertUserIfNotExists(tx.user, it.uid, found).did
               /\ seen' = NoResponse
               /\ \E d \in Deliveries : delivery' = d /\ SendReturns(d)
               /\ run2' = run2
               /\ tx' = [tx EXCEPT
                      !.user = InsertUserIfNotExists(tx.user, it.uid, found).users,
                      !.element = ElementInsert(tx.element, id, ToJsonString(it), today)]
           /\ msgs' = Append(msgs, [kind |-> "added", id |-> id])
    /\ counters' = [counters EXCEPT !.created = counters.created + 1]
    /\ Advance(AfterUpsert(fresh, idx))
    /\ sec' = NoLookup
    /\ UNCHANGED <<db, fresh, elements, outcome, lastIds, today, cycles>>

\* a create branch over a table that takes a second row for a stored key
UpsertCreateUnkeyed ==
    /\ pc = "upsert"
    /\ LET it == fresh.items[idx]
           id == ItemKey(it)
       IN  /\ FindElement(elements, id) = 0
           /\ \E found \in BOOLEAN :
               /\ actor' = InsertUserIfNotExists(tx.user, it.uid, found).did
               /\ seen' = NoResponse
               /\ \E d \in Deliveries : delivery' = d /\ SendReturns(d)
               /\ run2' = run2
               /\ tx' = [tx EXCEPT
                      !.user = InsertUserIfNotExists(tx.user, it.uid, found).users,
                      !.event = EventInsert(tx.event, id, "create", it.uid, it.user, today, 1),
                      !.element = ElementInsert(tx.element, id, ToJsonString(it), today)]
           /\ msgs' = Append(msgs, [kind |-> "added", id |-> id])
    /\ counters' = [counters EXCEPT !.created = counters.created + 1]
    /\ Advance(AfterUpsert(fresh, idx))
    /\ sec' = NoLookup
    /\ UNCHANGED <<db, fresh, elements, outcome, lastIds, today, cycles>>

\* an item without a stored element: create event, message, new row
UpsertCreate ==
    /\ pc = "upsert"
    /\ LET it == fresh.items[idx]
           id == ItemKey(it)
       IN  /\ FindElement(elements, id) = 0
           /\ ~HasRow(tx.element, id)
           /\ \E found \in BOOLEAN :
               /\ actor' = InsertUserIfNotExists(tx.user, it.uid, found).did
               /\ seen' = NoResponse
               /\ \E d \in Deliveries : delivery' = d /\ SendReturns(d)
               /\ run2' = run2
               /\ tx' = [tx EXCEPT
                      !.user = InsertUserIfNotExists(tx.user, it.uid, found).users,
                      !.event = EventInsert(tx.event, id, "create", it.uid, it.user, today, 1),
                      !.element = ElementInsert(tx.element, id, ToJsonString(it), today)]
           /\ msgs' = Append(msgs, [kind |-> "added", id |-> id])
    /\ counters' = [counters EXCEPT !.created = counters.created + 1]
    /\ Advance(AfterUpsert(fresh, idx))
    /\ sec' = NoLookup
    /\ UNCHANGED <<db, fresh, elements, outcome, lastIds, today, cycles>>

\* a second item with a key this cycle has already inserted: the snapshot has
\* no such element, the message goes out, ELEMENT_INSERT violates the key of
\* the element table and its unwrap panics
UpsertInsertConflict ==
    /\ pc = "upsert"
    /\ LET id == ItemKey(fresh.items[idx])
       IN  /\ FindElement(elements, id) = 0
           /\ HasRow(tx.element, id)
           /\ msgs' = Append(msgs, [kind |-> "added", id |-> id])
    /\ sec' = NoLookup
    /\ actor' = NoActor
    /\ seen' = NoResponse
    /\ \E d \in Deliveries : delivery' = d /\ SendReturns(d)
    /\ run2' = run2
    /\ Rollback("panic")

\* the bulk block of the response, all of its elements in one step: stored
\* and unchanged they need no write, on their first sighting each gets its
\* create event, its message and its row
BulkId == <<"bulk", 0>>

UpsertBulkNoop ==
    /\ pc = "bulk"
    /\ elements.bulk
    /\ pc' = "report"
    /\ idx' = 1
    /\ sec' = NoLookup
    /\ actor' = NoActor
    /\ seen' = NoResponse
    /\ delivery' = "none"
    /\ run2' = run2
    /\ UNCHANGED <<db, tx, fresh, elements, counters, msgs, outcome, lastIds, today, cycles>>

UpsertBulkCreate ==
    /\ pc = "bulk"
    /\ ~elements.bulk
    /\ tx' = [tx EXCEPT
            !.event = EventInsert(tx.event, BulkId, "create", 0, "", today, BulkSize),
            !.bulk = TRUE]
    /\ msgs' = Append(msgs, [kind |-> "added", id |-> BulkId])
    /\ counters' = [counters EXCEPT !.created = counters.created + BulkSize]
    /\ pc' = "report"
    /\ idx' = 1
    /\ sec' = NoLookup
    /\ actor' = InsertUserIfNotExists(tx.user, 0, FALSE).did
    /\ seen' = NoResponse
    /\ \E d \in Deliveries : delivery' = d /\ SendReturns(d)
    /\ run2' = run2
    /\ UNCHANGED <<db, fresh, elements, outcome, lastIds, today, cycles>>

\* -------------------------------------------------------------- report
\* it["tags"].get(name).is_some()
HasTag(it, name) == \E p \in it.tags : p[1] = name

\* today.sub(Duration::days(365)); dates are day numbers
YearAgo(day) == day - 365

\* the filter of up_to_date_elements
UpToDate(it, day) ==
    \/ HasTag(it, "survey:date") /\ Tag(it, "survey:date") > YearAgo(day)
    \/ HasTag(it, "check_date") /\ Tag(it, "check_date") > YearAgo(day)

\* the filter of outdated_elements
Outdated(it, day) ==
    \/ /\ ~HasTag(it, "check_date")
       /\ \/ ~HasTag(it, "survey:date")
          \/ HasTag(it, "survey:date") /\ Tag(it, "survey:date") <= YearAgo(day)
    \/ /\ ~HasTag(it, "survey:date")
       /\ \/ ~HasTag(it, "check_date")
          \/ HasTag(it, "check_date") /\ Tag(it, "check_date") <= YearAgo(day)

\* number of explicit items whose tag has the value yes
CountTagYes(f, name) == Cardinality({ i \in 1..Len(f.items) : Tag(f.items[i], name) = "yes" })

\* the elements of the bulk block carry currency:XBT=yes and no other tag
BulkCount(f) == IF f.bulk THEN BulkSize ELSE 0

\* a lookup that never finds the row of today
ReportSelectNoRow(reports, area, date) == 0

\* REPORT_SELECT_BY_AREA_ID_AND_DATE: position of the first such row, 0 for none
ReportSelectByAreaIdAndDate(reports, area, date) ==
    IF \E i \in 1..Len(reports) : reports[i].area_id = area /\ reports[i].date = date
    THEN CHOOSE i \in 1..Len(reports) :
            /\ reports[i].area_id = area /\ reports[i].date = date
            /\ \A j \in 1..(i - 1) : ~(reports[j].area_id = area /\ reports[j].date = date)
    ELSE 0

\* an update that writes the whole row of the date anew from the fetched dataset
ReportUpdateWholeRow(reports, c, u, d, area, date) ==
    [i \in 1..Len(reports) |->
        IF reports[i].area_id = area /\ reports[i].date = date
        THEN [reports[i] EXCEPT
                !.total_elements = FreshLen(fresh),
                !.total_elements_onchain = CountTagYes(fresh, "payment:onchain"),
                !.total_elements_lightning = CountTagYes(fresh, "payment:lightning"),
                !.elements_created = c, !.elements_updated = u, !.elements_deleted = d]
        ELSE reports[i]]

\* an update whose WHERE clause matches no row: the counters are lost
ReportUpdateEventCountersNoRow(reports, c, u, d, area, date) == reports

\* REPORT_UPDATE_EVENT_COUNTERS
ReportUpdateEventCounters(reports, c, u, d, area, date) ==
    [i \in 1..Len(reports) |->
        IF reports[i].area_id = area /\ reports[i].date = date
        THEN [reports[i] EXCEPT !.elements_created = c, !.elements_updated = u,
                                !.elements_deleted = d]
        ELSE reports[i]]

\* a report row whose total is elements.len(), the length of the snapshot that
\* line 359 logs as the total
NewReportOfSnapshot(f, c, day) ==
    [area_id |-> "",
     date |-> day,
     total_elements |-> Len(elements.rows) + (IF elements.bulk THEN BulkSize ELSE 0),
     total_elements_onchain |-> CountTagYes(f, "payment:onchain"),
     total_elements_lightning |-> CountTagYes(f, "payment:lightning"),
     total_elements_lightning_contactless |-> CountTagYes(f, "payment:lightning_contactless"),
     up_to_date_elements |-> Cardinality({ i \in 1..Len(f.items) : UpToDate(f.items[i], day) }),
     outdated_elements |->
         Cardinality({ i \in 1..Len(f.items) : Outdated(f.items[i], day) }) + BulkCount(f),
     legacy_elements |->
         Cardinality({ i \in 1..Len(f.items) : HasTag(f.items[i], "payment:bitcoin") }),
     elements_created |-> c.created,
     elements_updated |-> c.updated,
     elements_deleted |-> c.deleted]

\* REPORT_INSERT with the values of lines 397-408
NewReport(f, c, day) ==
    [area_id |-> "",
     date |-> day,
     total_elements |-> FreshLen(f),
     total_elements_onchain |-> CountTagYes(f, "payment:onchain"),
     total_elements_lightning |-> CountTagYes(f, "payment:lightning"),
     total_elements_lightning_contactless |-> CountTagYes(f, "payment:lightning_contactless"),
     up_to_date_elements |-> Cardinality({ i \in 1..Len(f.items) : UpToDate(f.items[i], day) }),
     outdated_elements |->
         Cardinality({ i \in 1..Len(f.items) : Outdated(f.items[i], day) }) + BulkCount(f),
     legacy_elements |->
         Cardinality({ i \in 1..Len(f.items) : HasTag(f.items[i], "payment:bitcoin") }),
     elements_created |-> c.created,
     elements_updated |-> c.updated,
     elements_deleted |-> c.deleted]

\* the whole-dataset report of today: counters added to an existing row,
\* a new row otherwise
WriteReport ==
    /\ pc = "report"
    /\ LET i == ReportSelectByAreaIdAndDate(tx.report, "", today)
       IN  tx' = [tx EXCEPT !.report =
                    IF i # 0
                    THEN ReportUpdateEventCounters(tx.report,
                             counters.created + tx.report[i].elements_created,
                             counters.updated + tx.report[i].elements_updated,
                             counters.deleted + tx.report[i].elements_deleted,
                             "", today)
                    ELSE Append(tx.report, NewReport(fresh, counters, today))]
    /\ pc' = "commit"
    /\ sec' = NoLookup
    /\ actor' = NoActor
    /\ seen' = NoResponse
    /\ delivery' = "none"
    /\ run2' = run2
    /\ UNCHANGED <<db, fresh, elements, idx, counters, msgs, outcome, lastIds, today, cycles>>

\* ------------------------------------------------------ commit and aborts
\* tx.commit(): all staged writes become the stored state at once
Commit ==
    /\ pc = "commit"
    /\ db' = tx
    /\ pc' = "idle"
    /\ outcome' = "committed"
    /\ lastIds' = FreshElementIds(fresh) \cup (IF fresh.bulk THEN {BulkId} ELSE {})
    /\ elements' = [rows |-> <<>>, bulk |-> FALSE]
    /\ idx' = 0
    /\ counters' = ZeroCounters
    /\ sec' = NoLookup
    /\ actor' = NoActor
    /\ seen' = NoResponse
    /\ delivery' = "none"
    /\ run2' = run2
    /\ UNCHANGED <<tx, fresh, msgs, today, cycles>>

\* tx.commit() returns an error: expect() panics
CommitFail ==
    /\ pc = "commit"
    /\ msgs' = msgs
    /\ sec' = NoLookup
    /\ actor' = NoActor
    /\ seen' = NoResponse
    /\ delivery' = "none"
    /\ run2' = run2
    /\ Rollback("panic")

\* a statement of the transaction returns an error: its unwrap() panics
WriteFail ==
    /\ pc \in {"delete", "upsert", "bulk", "report"}
    /\ msgs' = msgs
    /\ sec' = NoLookup
    /\ actor' = NoActor
    /\ seen' = NoResponse
    /\ delivery' = "none"
    /\ run2' = run2
    /\ Rollback("panic")

\* the process is killed while the transaction is open
Crash ==
    /\ pc # "idle"
    /\ msgs' = msgs
    /\ sec' = NoLookup
    /\ actor' = NoActor
    /\ seen' = NoResponse
    /\ delivery' = "none"
    /\ run2' = run2
    /\ Rollback("crash")

\* ------------------------------------------------------------ the start
\* the response of the first call: node:1 and the bulk block
FirstFresh ==
    [items |-> << [type |-> "node", id |-> 1, uid |-> MaxUid, user |-> UserName(MaxUid),
                   tags |-> OnchainTags] >>,
     bulk |-> TRUE]

\* the store after sync() has committed FirstFresh on day 1 into the empty store
StoreAfterFirstCycle ==
    [EmptyStore EXCEPT
        !.user = UserInsert(<<>>, MaxUid),
        !.bulk = TRUE,
        !.element = ElementInsert(<<>>, ItemKey(FirstFresh.items[1]),
                                  ToJsonString(FirstFresh.items[1]), 1),
        !.event = EventInsert(
                      EventInsert(<<>>, ItemKey(FirstFresh.items[1]), "create", MaxUid,
                                  UserName(MaxUid), 1, 1),
                      BulkId, "create", 0, "", 1, BulkSize),
        !.report = << NewReport(FirstFresh,
                                [created |-> FreshLen(FirstFresh), updated |-> 0,
                                 deleted |-> 0], 1) >>]

\* the database file that a sync process finds: a new one, or one that an
\* earlier process has left after its first committed cycle
InitialStores == {EmptyStore, StoreAfterFirstCycle}

Init ==
    /\ pc = "idle"
    /\ fresh = EmptyFresh
    /\ elements = [rows |-> <<>>, bulk |-> FALSE]
    /\ idx = 0
    /\ counters = ZeroCounters
    /\ msgs = <<>>
    /\ sec = NoLookup
    /\ actor = NoActor
    /\ seen = NoResponse
    /\ delivery = "none"
    /\ run2 = NoRun
    /\ outcome = "none"
    /\ today = 1
    /\ cycles = 0
    /\ db \in InitialStores
    /\ tx = db
    /\ lastIds = IF db = EmptyStore THEN {} ELSE FreshElementIds(FirstFresh) \cup {BulkId}

Next ==
    \/ Tick
    \/ FetchFail
    \/ SyncRejectSmall
    \/ SyncBegin
    \/ DeleteSkip
    \/ DeletePanic
    \/ DeleteContradiction
    \/ DeleteApply
    \/ UpsertUpdate
    \/ UpsertRevive
    \/ UpsertNoop
    \/ UpsertCreate
    \/ UpsertInsertConflict
    \/ UpsertBulkNoop
    \/ UpsertBulkCreate
    \/ WriteReport
    \/ Commit
    \/ CommitFail
    \/ WriteFail
    \/ Crash

Spec == Init /\ [][Next]_vars

TypeOK ==
    /\ pc \in {"idle", "delete", "upsert", "bulk", "report", "commit", "gen", "gencommit",
              "tags", "tagsdone", "fetch_pending", "lookup_pending",
              "auth", "authdone", "categories"}
    /\ today \in Days
    /\ cycles \in 0..MaxCycles
    /\ pc = "idle" => tx = db
    /\ run2.pc \in {"idle", "checked", "gen", "gencommit"}

(***************************************************************************)
(* Report generation (src/src/command/generate_reports.rs).                *)
(*                                                                         *)
(* run() works on the same store: it reads the element and the area table, *)
(* and writes report rows [area_id, date, tags] inside one transaction.    *)
(* Every iteration of the loop over the areas is one action; the clock can *)
(* advance between two of them (insert_report reads it again).  A run      *)
(* counts against the bound MaxCycles like a sync() call.                  *)
(*                                                                         *)
(* A boundary geometry is its GeoJSON kind and the set of coordinates that *)
(* geo::Contains finds inside it.  Node i lies at coordinate i; the        *)
(* elements of the bulk block lie outside every boundary of the area table.*)
(***************************************************************************)
GeoJsonNull == [kind |-> "null", parsed |-> FALSE, geometries |-> <<>>]

GeoJsonBroken == [kind |-> "object", parsed |-> FALSE, geometries |-> <<>>]

GeoJsonOf(geometries) == [kind |-> "object", parsed |-> TRUE, geometries |-> geometries]

LiveArea(id, alias, geo_json) ==
    [id |-> id, url_alias |-> alias, geo_json |-> geo_json, deleted_at |-> NULL]

\* the area table: the whole-dataset area, an area without boundary, one
\* with a boundary that is no GeoJSON, one with a single polygon, one whose
\* geometries overlap and include an unsupported kind, one with nothing but
\* an unsupported kind, and a deleted area
AreaTable ==
    << LiveArea("1", "earth", GeoJsonNull),
       LiveArea("2", "", GeoJsonNull),
       LiveArea("3", "bad", GeoJsonBroken),
       LiveArea("4", "one", GeoJsonOf(<< [value |-> "Polygon", covers |-> {1}] >>)),
       LiveArea("5", "two", GeoJsonOf(<< [value |-> "MultiPolygon", covers |-> {1}],
                                         [value |-> "LineString", covers |-> {1, 2}],
                                         [value |-> "Point", covers |-> {1, 2}] >>)),
       LiveArea("6", "odd", GeoJsonOf(<< [value |-> "Point", covers |-> {1, 2}] >>)),
       [id |-> "7", url_alias |-> "earth", geo_json |-> GeoJsonNull, deleted_at |-> 1] >>

InitReports ==
    /\ pc = "idle"
    /\ fresh = EmptyFresh
    /\ elements = [rows |-> <<>>, bulk |-> FALSE]
    /\ idx = 0
    /\ counters = ZeroCounters
    /\ msgs = <<>>
    /\ sec = NoLookup
    /\ actor = NoActor
    /\ seen = NoResponse
    /\ delivery = "none"
    /\ run2 = NoRun
    /\ outcome = "none"
    /\ today = 1
    /\ cycles = 0
    /\ db \in { [s EXCEPT !.area = AreaTable] : s \in InitialStores }
    /\ tx = db
    /\ lastIds = IF db.element = <<>> THEN {} ELSE FreshElementIds(FirstFresh) \cup {BulkId}

\* element.overpass_data.coord()
Coord(el) == el.data.id

NotDeleted(row) == row.deleted_at = NULL

\* a snapshot that keeps the soft-deleted elements
SelectAllWithDeleted(t) == LoadElements(t)

\* Element::select_all(...).filter(|it| it.deleted_at.is_none())
SelectLiveElements(t) ==
    [rows |-> SelectSeq(LoadElements(t).rows, NotDeleted), bulk |-> t.bulk]

\* Area::select_all(...).filter(|it| it.deleted_at == None)
SelectLiveAreas(t) == SelectSeq(t.area, NotDeleted)

\* Report::select_by_date
SelectByDate(reports, day) == { i \in 1..Len(reports) : reports[i].date = day }

\* a check that never finds a report of today
NoTodayReports(reports, day) == FALSE

\* !today_reports.is_empty()
HasTodayReports(reports, day) == SelectByDate(reports, day) # {}

\* Report::select_latest_by_area_id: position of the latest row, 0 for none
SelectLatestByAreaId(reports, area_id) ==
    IF \E i \in 1..Len(reports) : reports[i].area_id = area_id
    THEN CHOOSE i \in 1..Len(reports) :
            /\ reports[i].area_id = area_id
            /\ \A j \in (i + 1)..Len(reports) : reports[j].area_id # area_id
    ELSE 0

\* every kind of geometry taken for a supported one
SupportedAnyKind(geometry) == TRUE

\* the arms of the match on geometry.value
Supported(geometry) == geometry.value \in {"MultiPolygon", "Polygon", "LineString"}

\* multi_poly / poly / line_string .contains(&coord)
Contains(geometry, coord) == coord \in geometry.covers

\* how often the loops over the geometries push one element
PushCount(geometries, coord) ==
    Cardinality({ k \in 1..Len(geometries) :
                    Supported(geometries[k]) /\ Contains(geometries[k], coord) })

\* area_elements as the number of times each element of the snapshot is in it
AreaElements(area, els) ==
    [rows |-> [i \in 1..Len(els.rows) |->
                  IF area.geo_json.kind = "object"
                  THEN PushCount(area.geo_json.geometries, Coord(els.rows[i]))
                  ELSE 0],
     bulk |-> 0]

\* elements.iter().collect(): every element of the snapshot once
EarthElements(els) ==
    [rows |-> [i \in 1..Len(els.rows) |-> 1], bulk |-> IF els.bulk THEN 1 ELSE 0]

RECURSIVE SumUpTo(_, _)
SumUpTo(f, n) == IF n = 0 THEN 0 ELSE f[n] + SumUpTo(f, n - 1)

\* length of the list, or of the part of it whose elements have the tag value
ListLen(m) == SumUpTo(m.rows, Len(m.rows)) + m.bulk * BulkSize

TagLen(m, els, name, value) ==
    SumUpTo([i \in 1..Len(els.rows) |->
                IF Tag(els.rows[i].data, name) = value THEN m.rows[i] ELSE 0], Len(els.rows))

UpToDateLen(m, els, day) ==
    SumUpTo([i \in 1..Len(els.rows) |->
                IF UpToDate(els.rows[i].data, day) THEN m.rows[i] ELSE 0], Len(els.rows))

\* up / len * 100 as i64: 0 for the empty list (NaN), the integer part
\* otherwise (exact for the counts within the bounds)
Percent(up, len) == IF len = 0 THEN 0 ELSE (up * 100) \div len

\* the tags that date a survey or a verification of the element
DateTags == {"survey:date", "check_date", "check_date:currency:XBT"}

\* overpass_data.verification_date(): the most recent of the element's date
\* tags, none when it has no such tag
VerificationDate(data) ==
    LET dates == { p[2] : p \in { q \in data.tags : q[1] \in DateTags } }
    IN  IF dates = {} THEN [some |-> FALSE]
        ELSE [some |-> TRUE, day |-> CHOOSE d \in dates : \A e \in dates : e <= d]

SecondsPerDay == 86400

\* unix_timestamp() of the midnight that begins the day
UnixTimestamp(day) == day * SecondsPerDay

\* a filter that lets the dates of the future pass
FutureIncluded(ts, now) == TRUE

\* the second filter_map of verification_dates: a date later than now is dropped
NotInFuture(ts, now) == ~(ts > now)

\* x as i64 for the quotient of two integers: the fraction is cut off
Truncate(sum, len) == IF sum >= 0 THEN sum \div len ELSE 0 - ((0 - sum) \div len)

\* the timestamps that verification_dates holds for row i, with the number of
\* times the row is in the list
DatedCount(m, els, now, i) ==
    LET date == VerificationDate(els.rows[i].data)
    IN  IF date.some /\ NotInFuture(UnixTimestamp(date.day), now) THEN m.rows[i] ELSE 0

DatedSum(m, els, now, i) ==
    LET date == VerificationDate(els.rows[i].data)
    IN  IF date.some /\ NotInFuture(UnixTimestamp(date.day), now)
        THEN m.rows[i] * UnixTimestamp(date.day)
        ELSE 0

\* OffsetDateTime::from_unix_timestamp(..).format(&Iso8601::DEFAULT): the day
\* and the second within the day
FormatTimestamp(ts) == <<ts \div SecondsPerDay, ts % SecondsPerDay>>

\* the avg_verification_date member, when verification_dates is not empty
AvgVerificationDate(m, els, now) ==
    LET len == SumUpTo([i \in 1..Len(els.rows) |-> DatedCount(m, els, now, i)], Len(els.rows))
        sum == SumUpTo([i \in 1..Len(els.rows) |-> DatedSum(m, els, now, i)], Len(els.rows))
    IN  IF len > 0
        THEN [some |-> TRUE, value |-> FormatTimestamp(Truncate(sum, len))]
        ELSE [some |-> FALSE]

\* the members that every tag map has
CountTags(m, els, day) ==
    [total_elements |-> ListLen(m),
     total_atms |-> TagLen(m, els, "amenity", "atm"),
     total_elements_onchain |-> TagLen(m, els, "payment:onchain", "yes"),
     total_elements_lightning |-> TagLen(m, els, "payment:lightning", "yes"),
     total_elements_lightning_contactless |->
         TagLen(m, els, "payment:lightning_contactless", "yes"),
     up_to_date_elements |-> UpToDateLen(m, els, day),
     outdated_elements |-> ListLen(m) - UpToDateLen(m, els, day),
     legacy_elements |-> TagLen(m, els, "payment:bitcoin", "yes"),
     up_to_date_percent |-> Percent(UpToDateLen(m, els, day), ListLen(m))]

\* generate_report_tags.  The clock is read at the midnight of the day: a
\* verification date is a midnight, so that the comparison with now comes
\* out the same at every time of that day
GenerateReportTags(m, els, day) ==
    LET avg == AvgVerificationDate(m, els, UnixTimestamp(day))
    IN  IF avg.some
        THEN ("avg_verification_date" :> avg.value) @@ CountTags(m, els, day)
        ELSE CountTags(m, els, day)

\* insert_report: the date is read from the clock at the insert
InsertReport(reports, area_id, tags, now) ==
    Append(reports, [area_id |-> area_id, date |-> now, tags |-> tags])

\* a comparison that never finds the two tag maps equal
TagsAlwaysDiffer(new, latest) == TRUE

\* &new_report_tags != &latest_report.tags
TagsDiffer(new, latest) == new # latest

\* the clock passes midnight while run() is in its loop
TickReports ==
    /\ pc = "gen"
    /\ today < MaxDay
    /\ today' = today + 1
    /\ UNCHANGED <<db, tx, pc, fresh, elements, idx, counters, msgs, sec, actor, seen, delivery, run2, outcome, lastIds, cycles>>

\* reports of today exist: run() returns at once
RunAbortToday ==
    /\ pc = "idle"
    /\ HasTodayReports(db.report, today)
    /\ outcome' = "gen_aborted"
    /\ msgs' = <<>>
    /\ sec' = NoLookup
    /\ actor' = NoActor
    /\ seen' = NoResponse
    /\ delivery' = "none"
    /\ run2' = run2
    /\ fresh' = EmptyFresh
    /\ UNCHANGED <<db, tx, pc, elements, idx, counters, lastIds, today, cycles>>

\* where the loop over the areas stands after its step i
AfterArea(areas, i) == IF i < Len(areas) THEN "gen" ELSE "gencommit"

\* the snapshot and the areas are read, the transaction opens
RunBegin ==
    /\ pc = "idle"
    /\ cycles < MaxCycles
    /\ ~HasTodayReports(db.report, today)
    /\ tx' = db
    /\ elements' = SelectLiveElements(db)
    /\ idx' = 1
    /\ pc' = AfterArea(SelectLiveAreas(db), 0)
    /\ outcome' = "gen_running"
    /\ msgs' = <<>>
    /\ sec' = NoLookup
    /\ actor' = NoActor
    /\ seen' = NoResponse
    /\ delivery' = "none"
    /\ run2' = run2
    /\ fresh' = EmptyFresh
    /\ counters' = ZeroCounters
    /\ cycles' = cycles + 1
    /\ UNCHANGED <<db, lastIds, today>>

\* the area of the current iteration
CurrentArea == SelectLiveAreas(db)[idx]

IsEarth(area) == area.url_alias = "earth"

NextArea ==
    /\ pc' = AfterArea(SelectLiveAreas(db), idx)
    /\ idx' = idx + 1
    /\ UNCHANGED <<db, fresh, elements, counters, msgs, sec, actor, seen, delivery, run2, outcome, lastIds, today, cycles>>

\* url_alias = earth: a report over the whole snapshot, inserted unconditionally
RunEarth ==
    /\ pc = "gen"
    /\ IsEarth(CurrentArea)
    /\ tx' = [tx EXCEPT !.report =
                InsertReport(tx.report, CurrentArea.id,
                             GenerateReportTags(EarthElements(elements), elements, today), today)]
    /\ NextArea

\* no geo_json tag: continue
RunSkipNoGeoJson ==
    /\ pc = "gen"
    /\ ~IsEarth(CurrentArea)
    /\ CurrentArea.geo_json.kind = "null"
    /\ tx' = tx
    /\ NextArea

\* the geo_json object does not parse as GeoJSON: the error is logged, continue
RunSkipParseError ==
    /\ pc = "gen"
    /\ ~IsEarth(CurrentArea)
    /\ CurrentArea.geo_json.kind = "object"
    /\ ~CurrentArea.geo_json.parsed
    /\ tx' = tx
    /\ NextArea

\* the report of an area with a boundary: inserted when the area has no
\* report yet or the tags differ from those of its latest report
RunArea ==
    /\ pc = "gen"
    /\ ~IsEarth(CurrentArea)
    /\ CurrentArea.geo_json.kind # "null"
    /\ CurrentArea.geo_json.kind = "object" => CurrentArea.geo_json.parsed
    /\ LET new_report_tags ==
               GenerateReportTags(AreaElements(CurrentArea, elements), elements, today)
           prev_report == SelectLatestByAreaId(tx.report, CurrentArea.id)
       IN  tx' = [tx EXCEPT !.report =
                    IF prev_report = 0
                    THEN InsertReport(tx.report, CurrentArea.id, new_report_tags, today)
                    ELSE IF TagsDiffer(new_report_tags, tx.report[prev_report].tags)
                         THEN InsertReport(tx.report, CurrentArea.id, new_report_tags, today)
                         ELSE tx.report]
    /\ NextArea

\* tx.commit()
RunCommit ==
    /\ pc = "gencommit"
    /\ db' = tx
    /\ pc' = "idle"
    /\ outcome' = "gen_committed"
    /\ elements' = [rows |-> <<>>, bulk |-> FALSE]
    /\ idx' = 0
    /\ UNCHANGED <<tx, fresh, counters, msgs, sec, actor, seen, delivery, run2, lastIds, today, cycles>>

\* a store call of run() returns an error: ? hands it to the caller and the
\* transaction is dropped
RunFail ==
    /\ pc \in {"gen", "gencommit"}
    /\ msgs' = msgs
    /\ sec' = sec
    /\ actor' = actor
    /\ seen' = NoResponse
    /\ delivery' = "none"
    /\ run2' = run2
    /\ Rollback("gen_error")

NextReports ==
    \/ Tick
    \/ FetchFail
    \/ SyncRejectSmall
    \/ SyncBegin
    \/ DeleteSkip
    \/ DeletePanic
    \/ DeleteContradiction
    \/ DeleteApply
    \/ UpsertUpdate
    \/ UpsertRevive
    \/ UpsertNoop
    \/ UpsertCreate
    \/ UpsertInsertConflict
    \/ UpsertBulkNoop
    \/ UpsertBulkCreate
    \/ WriteReport
    \/ Commit
    \/ CommitFail
    \/ WriteFail
    \/ Crash
    \/ TickReports
    \/ RunAbortToday
    \/ RunBegin
    \/ RunEarth
    \/ RunSkipNoGeoJson
    \/ RunSkipParseError
    \/ RunArea
    \/ RunCommit
    \/ RunFail

SpecReports == InitReports /\ [][NextReports]_vars

(***************************************************************************)
(* The HTTP server (src/src/main.rs, src/src/controller/element_v2.rs).    *)
(*                                                                         *)
(* The server is a process of its own with its own connection to the       *)
(* SQLite file; sync() runs in another process.  GET /v2/elements without  *)
(* updated_since is one SELECT over the element table; it can be served at *)
(* any point of a reconciliation cycle.                                    *)
(***************************************************************************)
\* Into<GetItem> for Element: deleted_at is a string, the empty one when the
\* column is NULL (a string is a sequence here: <<>> is the empty one)
IntoGetItem(row) ==
    [id |-> row.id, osm_json |-> FromJsonString(row.data), updated_at |-> row.updated_at,
     deleted_at |-> IF row.deleted_at = NULL THEN <<>> ELSE <<row.deleted_at>>]

\* a connection that reads the statements of another connection's open
\* transaction
ReaderStoreUncommitted(committed, staged) == staged

\* the tables that the server's connection reads: the committed ones, without
\* the statements of the transaction that sync() holds open
ReaderStore(committed, staged) == committed

\* get() with updated_since = None: ELEMENT_SELECT_ALL, every row as a GetItem
GetElements ==
    /\ seen' = [served |-> TRUE,
                items |-> [i \in 1..Len(ReaderStore(db, tx).element) |->
                              IntoGetItem(ReaderStore(db, tx).element[i])],
                bulk |-> ReaderStore(db, tx).bulk]
    /\ delivery' = "none"
    /\ run2' = run2
    /\ UNCHANGED <<db, tx, pc, fresh, elements, idx, counters, msgs, sec, actor, outcome,
                   lastIds, today, cycles>>

NextServe ==
    \/ Tick
    \/ FetchFail
    \/ SyncRejectSmall
    \/ SyncBegin
    \/ DeleteSkip
    \/ DeletePanic
    \/ DeleteContradiction
    \/ DeleteApply
    \/ UpsertUpdate
    \/ UpsertRevive
    \/ UpsertNoop
    \/ UpsertCreate
    \/ UpsertInsertConflict
    \/ UpsertBulkNoop
    \/ UpsertBulkCreate
    \/ WriteReport
    \/ Commit
    \/ CommitFail
    \/ WriteFail
    \/ Crash
    \/ GetElements

SpecServe == Init /\ [][NextServe]_vars

(***************************************************************************)
(* The requests of sync() as awaits.  reqwest::Client::new() (sync.rs:33)   *)
(* and reqwest::get (sync.rs:496) are built without a timeout, so an        *)
(* answer that never comes is awaited for as long as the process lives:     *)
(* the call stands at the await and none of its statements runs.            *)
(***************************************************************************)
\* the awaits of sync() that this section follows
Pending == {"fetch_pending", "lookup_pending"}

\* the Overpass request is sent and no answer comes
FetchPending ==
    /\ pc = "idle"
    /\ pc' = "fetch_pending"
    /\ outcome' = "none"
    /\ msgs' = <<>>
    /\ sec' = NoLookup
    /\ actor' = NoActor
    /\ seen' = NoResponse
    /\ delivery' = "none"
    /\ run2' = run2
    /\ fresh' = EmptyFresh
    /\ UNCHANGED <<db, tx, elements, idx, counters, lastIds, today, cycles>>

\* what insert_user_if_not_exists has done when it stands at reqwest::get
AwaitingUser(uid) ==
    [called |-> TRUE, uid |-> uid, read |-> TRUE, lookup |-> "pending", inserted |-> FALSE]

\* insert_user_if_not_exists sends its request: the uid is not 0 and not stored
SendsUserRequest(users, uid) == uid # 0 /\ UserSelectById(users, uid) = 0

\* the user request of an upsert step (update or insert branch) or of a
\* deletion step is sent and no answer comes; the call comes first in each of
\* the three branches, so nothing of the step is staged
LookupPending ==
    /\ \/ /\ pc = "upsert"
          /\ LET it == fresh.items[idx]
                 i  == FindElement(elements, ItemKey(it))
             IN  /\ IF i = 0 THEN TRUE ELSE DataDiffers(elements.rows[i], it)
                 /\ SendsUserRequest(tx.user, it.uid)
                 /\ actor' = AwaitingUser(it.uid)
                 /\ sec' = NoLookup
       \/ /\ pc = "delete"
          /\ MissingAndLive(elements.rows[idx], fresh)
          /\ \E r \in SecondaryRecords :
                /\ DeletedFromOsm(r) \/ ~StillAcceptsBitcoin(r)
                /\ SendsUserRequest(tx.user, r.uid)
                /\ actor' = AwaitingUser(r.uid)
                /\ sec' = r
    /\ pc' = "lookup_pending"
    /\ seen' = NoResponse
    /\ delivery' = "none"
    /\ run2' = run2
    /\ UNCHANGED <<db, tx, fresh, elements, idx, counters, msgs, outcome, lastIds, today, cycles>>

NextAwait ==
    \/ Tick
    \/ FetchFail
    \/ SyncRejectSmall
    \/ SyncBegin
    \/ DeleteSkip
    \/ DeletePanic
    \/ DeleteContradiction
    \/ DeleteApply
    \/ UpsertUpdate
    \/ UpsertRevive
    \/ UpsertNoop
    \/ UpsertCreate
    \/ UpsertInsertConflict
    \/ UpsertBulkNoop
    \/ UpsertBulkCreate
    \/ WriteReport
    \/ Commit
    \/ CommitFail
    \/ WriteFail
    \/ Crash
    \/ FetchPending
    \/ LookupPending

SpecAwait == Init /\ [][NextAwait]_vars

(***************************************************************************)
(* generate_report_tags on its own, as its test calls it: a list of live   *)
(* elements, every one once, with a verification date of today, of an      *)
(* earlier or of a later day, or without one.                              *)
(***************************************************************************)
\* the payloads of the elements handed to generate_report_tags
DatedPayloads ==
    { [uid |-> 0, tags |-> {}] } \cup
    { [uid |-> MaxUid, tags |-> {<<"check_date:currency:XBT", d>>}] : d \in 1..(MaxDay + 1) }

\* the element lists: element i has the key node:i
TagInputs ==
    { [rows |-> [i \in 1..Len(s) |->
                    [id |-> BtcmapId("node", i),
                     data |-> [type |-> "node", id |-> i, uid |-> s[i].uid,
                               user |-> UserName(s[i].uid), tags |-> s[i].tags],
                     deleted_at |-> NULL]],
       bulk |-> b] :
        s \in SeqsUpTo(DatedPayloads, MaxFresh + 1), b \in BOOLEAN }

InitTags ==
    /\ db = EmptyStore
    /\ tx = EmptyStore
    /\ pc = "tags"
    /\ fresh = EmptyFresh
    /\ elements \in TagInputs
    /\ idx = 0
    /\ counters = ZeroCounters
    /\ msgs = <<>>
    /\ sec = NoLookup
    /\ actor = NoActor
    /\ seen = NoResponse
    /\ delivery = "none"
    /\ run2 = NoRun
    /\ outcome = "none"
    /\ lastIds = {}
    /\ today \in Days
    /\ cycles = 0

\* the call: outcome holds the tag map it returns
GenerateReportTagsCall ==
    /\ pc = "tags"
    /\ pc' = "tagsdone"
    /\ outcome' = GenerateReportTags(EarthElements(elements), elements, today)
    /\ UNCHANGED <<db, tx, fresh, elements, idx, counters, msgs, sec, actor, seen, delivery, run2, lastIds, today, cycles>>

NextTags == GenerateReportTagsCall

SpecTags == InitTags /\ [][NextTags]_vars

(***************************************************************************)
(* get_admin_token (src/src/service/auth.rs) on its own, as its tests call *)
(* it: a token table and one request.  A header value is a sequence of     *)
(* bytes; text is a sequence of characters.                                *)
(***************************************************************************)
MaxHeaderLen == 4

\* a byte that is no visible ASCII character
OpaqueByte == "#"

HeaderBytes == {" ", "s", "x", OpaqueByte}

\* the Authorization header of a request: none, or a value
NoHeader == [present |-> FALSE, value |-> <<>>]

Headers ==
    {NoHeader} \cup { [present |-> TRUE, value |-> v] : v \in SeqsUpTo(HeaderBytes, MaxHeaderLen) }

\* the token tables of the runs: empty, the one of the tests, two tokens, a
\* token with an empty secret, a token whose secret holds the opaque byte
TokenTables ==
    { <<>>,
      << [user_id |-> 1, secret |-> <<"s">>] >>,
      << [user_id |-> 1, secret |-> <<"s">>], [user_id |-> 2, secret |-> <<"x", "s">>] >>,
      << [user_id |-> 3, secret |-> <<>>] >>,
      << [user_id |-> 4, secret |-> <<OpaqueByte>>] >> }

\* HeaderValue::to_str: the text of the value if every byte is visible ASCII
IsVisible(v) == \A i \in 1..Len(v) : v[i] # OpaqueByte

\* .map(|it| it.to_str().unwrap_or("")).unwrap_or("")
AuthHeader(h) == IF h.present /\ IsVisible(h.value) THEN h.value ELSE <<>>

\* position of the first separator in s, 0 if there is none
RECURSIVE FirstSpace(_, _)
FirstSpace(s, i) ==
    IF i > Len(s) THEN 0 ELSE IF s[i] = " " THEN i ELSE FirstSpace(s, i + 1)

\* auth_header.split(" "): one part more than there are separators
RECURSIVE Split(_)
Split(s) ==
    IF FirstSpace(s, 1) = 0
    THEN << s >>
    ELSE << SubSeq(s, 1, FirstSpace(s, 1) - 1) >>
             \o Split(SubSeq(s, FirstSpace(s, 1) + 1, Len(s)))

\* token::SELECT_BY_SECRET with .optional(): position of the first row with
\* this secret, 0 for none
SelectBySecret(tokens, secret) ==
    IF \E i \in 1..Len(tokens) : tokens[i].secret = secret
    THEN CHOOSE i \in 1..Len(tokens) :
             /\ tokens[i].secret = secret
             /\ \A j \in 1..(i - 1) : tokens[j].secret # secret
    ELSE 0

ApiError(code, message) == [ok |-> FALSE, status |-> code, message |-> message]

\* a check that takes the last part of a header of two parts or more
GetAdminTokenLastPart(tokens, h) ==
    IF Len(AuthHeader(h)) = 0
    THEN ApiError(401, "Authorization header is missing")
    ELSE IF Len(Split(AuthHeader(h))) < 2
    THEN ApiError(401, "Authorization header is invalid")
    ELSE IF SelectBySecret(tokens, Split(AuthHeader(h))[Len(Split(AuthHeader(h)))]) # 0
    THEN [ok |-> TRUE,
          token |-> tokens[SelectBySecret(tokens,
                                          Split(AuthHeader(h))[Len(Split(AuthHeader(h)))])]]
    ELSE ApiError(401, "Invalid token")

\* get_admin_token: Ok(token) or Err(ApiError)
GetAdminToken(tokens, h) ==
    IF Len(AuthHeader(h)) = 0
    THEN ApiError(401, "Authorization header is missing")
    ELSE IF Len(Split(AuthHeader(h))) # 2
    THEN ApiError(401, "Authorization header is invalid")
    ELSE IF SelectBySecret(tokens, Split(AuthHeader(h))[2]) # 0
    THEN [ok |-> TRUE, token |-> tokens[SelectBySecret(tokens, Split(AuthHeader(h))[2])]]
    ELSE ApiError(401, "Invalid token")

\* a store with a token table
WithTokens(store, tokens) == ("token" :> tokens) @@ store

InitAuth ==
    /\ \E t \in TokenTables :
        /\ db = WithTokens(EmptyStore, t)
        /\ tx = WithTokens(EmptyStore, t)
    /\ pc = "auth"
    /\ fresh = EmptyFresh
    /\ elements = [rows |-> <<>>, bulk |-> FALSE]
    /\ idx = 0
    /\ counters = ZeroCounters
    /\ msgs = <<>>
    /\ sec = NoLookup
    /\ actor = NoActor
    /\ seen \in { [served |-> FALSE, header |-> h] : h \in Headers }
    /\ delivery = "none"
    /\ run2 = NoRun
    /\ outcome = "none"
    /\ lastIds = {}
    /\ today = 1
    /\ cycles = 0

\* the call of the test handler: outcome holds what get_admin_token returns
GetAdminTokenCall ==
    /\ pc = "auth"
    /\ pc' = "authdone"
    /\ outcome' = GetAdminToken(db.token, seen.header)
    /\ seen' = [seen EXCEPT !.served = TRUE]
    /\ UNCHANGED <<db, tx, fresh, elements, idx, counters, msgs, sec, actor, delivery, run2, lastIds, today, cycles>>

NextAuth == GetAdminTokenCall

SpecAuth == InitAuth /\ [][NextAuth]_vars

(***************************************************************************)
(* The mutating requests of the server: PATCH events/{id}/tags             *)
(* (controller/event_v2.rs), PATCH users/{id}/tags (controller/user_v2.rs),*)
(* POST areas and POST areas/{id}/tags (controller/area_v2.rs).  The server*)
(* works on its own connection without a transaction: every statement is   *)
(* committed when it returns, so tx stays equal to db.  The store is the   *)
(* empty one or the one that a first sync() call has committed.  A handler *)
(* is one action; seen holds the request and the status of the answer.     *)
(***************************************************************************)
\* the token table of the tests: one token
TestTokens == << [user_id |-> 1, secret |-> <<"s">>] >>

\* ADMIN_TOKEN of the area tests
AdminToken == <<"s">>

\* the headers of the requests: none, "x s", "x x", "s", one with an opaque
\* byte before the secret
ApiHeaders ==
    { NoHeader,
      [present |-> TRUE, value |-> <<"x", " ", "s">>],
      [present |-> TRUE, value |-> <<"x", " ", "x">>],
      [present |-> TRUE, value |-> <<"s">>],
      [present |-> TRUE, value |-> <<OpaqueByte, " ", "s">>] }

\* bodies of the tag requests (event_v2.rs: json!({ "foo": "bar" }))
TagArgs == { {<<"foo", "bar">>}, {<<"foo", "baz">>} }

\* ids of the event requests: the rows of the store and one more
EventIds == 1..3

\* ids of the area requests
AreaIds == {"test-area"}

\* name and value of an area tag request; an empty value removes the tag
AreaTagValues == {"v", ""}

\* the tags column of a row: '{}' unless a request has written it
TagsOf(row) == IF "tags" \in DOMAIN row THEN row.tags ELSE {}

\* merging the members of args into a tag object
MergeInto(tags, args) == args \cup { p \in tags : \A q \in args : q[1] # p[1] }

\* Event::select_by_id: the row with this id, 0 for none
EventSelectById(events, id) == IF id \in 1..Len(events) THEN id ELSE 0

\* Event::merge_tags
EventMergeTags(events, id, args) ==
    [events EXCEPT ![id] = ("tags" :> MergeInto(TagsOf(@), args)) @@ @]

\* User::merge_tags
UserMergeTags(users, uid, args) ==
    [users EXCEPT ![UserSelectById(users, uid)] = ("tags" :> MergeInto(TagsOf(@), args)) @@ @]

\* is_from_admin: the header names ADMIN_TOKEN
IsFromAdmin(h) ==
    /\ Len(AuthHeader(h)) # 0
    /\ Len(Split(AuthHeader(h))) = 2
    /\ Split(AuthHeader(h))[2] = AdminToken

\* AREA_SELECT_BY_ID: position of the row, 0 for none
AreaSelectById(areas, id) ==
    IF \E i \in 1..Len(areas) : areas[i].id = id
    THEN CHOOSE i \in 1..Len(areas) : areas[i].id = id
    ELSE 0

\* AREA_INSERT
AreaInsert(areas, id) == Append(areas, [id |-> id, tags |-> {}, deleted_at |-> NULL])

\* AREA_INSERT_TAG: json_set on the tags of the area
AreaInsertTag(areas, id, name, value) ==
    [areas EXCEPT ![AreaSelectById(areas, id)].tags = MergeInto(@, {<<name, value>>})]

\* AREA_DELETE_TAG: json_remove on the tags of the area
AreaDeleteTag(areas, id, name) ==
    [areas EXCEPT ![AreaSelectById(areas, id)].tags = { p \in @ : p[1] # name }]

\* what a handler has answered to which request
Served(route, h, id, status) ==
    [served |-> TRUE, route |-> route, header |-> h, id |-> id, status |-> status]

\* the statement of a handler is committed when it returns
ServerWrites(store) == db' = store /\ tx' = store

\* a handler that merges before it has looked at the credential
PatchEventTagsUnchecked ==
    /\ pc = "idle"
    /\ \E h \in ApiHeaders, id \in EventIds, args \in TagArgs :
        IF EventSelectById(db.event, id) = 0
        THEN seen' = Served("events/tags", h, id, 404) /\ ServerWrites(db)
        ELSE /\ seen' = Served("events/tags", h, id, 200)
             /\ ServerWrites([db EXCEPT !.event = EventMergeTags(db.event, id, args)])
    /\ delivery' = "none"
    /\ run2' = run2
    /\ UNCHANGED <<pc, fresh, elements, idx, counters, msgs, sec, actor, outcome, lastIds, today, cycles>>

\* event_v2::patch_tags
PatchEventTags ==
    /\ pc = "idle"
    /\ \E h \in ApiHeaders, id \in EventIds, args \in TagArgs :
        IF ~GetAdminToken(db.token, h).ok
        THEN /\ seen' = Served("events/tags", h, id, GetAdminToken(db.token, h).status)
             /\ ServerWrites(db)
        ELSE IF EventSelectById(db.event, id) = 0
        THEN seen' = Served("events/tags", h, id, 404) /\ ServerWrites(db)
        ELSE /\ seen' = Served("events/tags", h, id, 200)
             /\ ServerWrites([db EXCEPT !.event = EventMergeTags(db.event, id, args)])
    /\ delivery' = "none"
    /\ run2' = run2
    /\ UNCHANGED <<pc, fresh, elements, idx, counters, msgs, sec, actor, outcome, lastIds, today, cycles>>

\* user_v2::patch_tags
PatchUserTags ==
    /\ pc = "idle"
    /\ \E h \in ApiHeaders, uid \in Uids \cup {MaxUid + 1}, args \in TagArgs :
        IF ~GetAdminToken(db.token, h).ok
        THEN /\ seen' = Served("users/tags", h, uid, GetAdminToken(db.token, h).status)
             /\ ServerWrites(db)
        ELSE IF UserSelectById(db.user, uid) = 0
        THEN seen' = Served("users/tags", h, uid, 404) /\ ServerWrites(db)
        ELSE /\ seen' = Served("users/tags", h, uid, 200)
             /\ ServerWrites([db EXCEPT !.user = UserMergeTags(db.user, uid, args)])
    /\ delivery' = "none"
    /\ run2' = run2
    /\ UNCHANGED <<pc, fresh, elements, idx, counters, msgs, sec, actor, outcome, lastIds, today, cycles>>

\* area_v2::post; an id that is already stored fails on the key of the table
PostArea ==
    /\ pc = "idle"
    /\ \E h \in ApiHeaders, id \in AreaIds :
        IF ~IsFromAdmin(h)
        THEN seen' = Served("areas", h, id, 401) /\ ServerWrites(db)
        ELSE IF AreaSelectById(db.area, id) # 0
        THEN seen' = Served("areas", h, id, 500) /\ ServerWrites(db)
        ELSE /\ seen' = Served("areas", h, id, 201)
             /\ ServerWrites([db EXCEPT !.area = AreaInsert(db.area, id)])
    /\ delivery' = "none"
    /\ run2' = run2
    /\ UNCHANGED <<pc, fresh, elements, idx, counters, msgs, sec, actor, outcome, lastIds, today, cycles>>

\* area_v2::post_tags
PostAreaTags ==
    /\ pc = "idle"
    /\ \E h \in ApiHeaders, id \in AreaIds, value \in AreaTagValues :
        IF ~IsFromAdmin(h)
        THEN seen' = Served("areas/tags", h, id, 401) /\ ServerWrites(db)
        ELSE IF AreaSelectById(db.area, id) = 0
        THEN seen' = Served("areas/tags", h, id, 404) /\ ServerWrites(db)
        ELSE /\ seen' = Served("areas/tags", h, id, 201)
             /\ ServerWrites([db EXCEPT !.area =
                    IF Len(value) > 0
                    THEN AreaInsertTag(db.area, id, "name", value)
                    ELSE AreaDeleteTag(db.area, id, "name")])
    /\ delivery' = "none"
    /\ run2' = run2
    /\ UNCHANGED <<pc, fresh, elements, idx, counters, msgs, sec, actor, outcome, lastIds, today, cycles>>

InitApi ==
    /\ \E s \in {EmptyStore, StoreAfterFirstCycle} :
        /\ db = WithTokens(s, TestTokens)
        /\ tx = WithTokens(s, TestTokens)
    /\ pc = "idle"
    /\ fresh = EmptyFresh
    /\ elements = [rows |-> <<>>, bulk |-> FALSE]
    /\ idx = 0
    /\ counters = ZeroCounters
    /\ msgs = <<>>
    /\ sec = NoLookup
    /\ actor = NoActor
    /\ seen = NoResponse
    /\ delivery = "none"
    /\ run2 = NoRun
    /\ outcome = "none"
    /\ lastIds = {}
    /\ today = 1
    /\ cycles = 0

NextApi ==
    \/ PatchEventTags
    \/ PatchUserTags
    \/ PostArea
    \/ PostAreaTags

SpecApi == InitApi /\ [][NextApi]_vars

(***************************************************************************)
(* The element-category backfill                                           *)
(* (src/src/command/generate_element_categories.rs).  run() reads every    *)
(* element, keeps those without deleted_at and goes through them one by    *)
(* one; every statement is committed when it returns.  An element row is   *)
(* [id, osm_json, tags, deleted_at]; a JSON value is its kind and, for a   *)
(* string, its text.  One iteration of the loop is one action.             *)
(***************************************************************************)
JsonNull == [kind |-> "null", str |-> ""]

JsonNumber == [kind |-> "number", str |-> ""]

JsonStr(s) == [kind |-> "string", str |-> s]

\* Value::as_str().unwrap_or("")
AsStrOrEmpty(v) == IF v.kind = "string" THEN v.str ELSE ""

\* the amenity and tourism tags of the payloads
Amenities == {JsonNull, JsonStr("atm"), JsonStr("pub"), JsonStr("shop")}

Tourisms == {JsonNull, JsonStr("hotel")}

\* the local tags a row starts with: none, those of an earlier run, others
StartTags ==
    { [category |-> c, plural |-> p] :
        c \in {JsonNull, JsonStr("atm"), JsonStr("other"), JsonNumber},
        p \in {JsonNull, JsonStr("atms")} }

\* deleted_at of the element model: the empty string for a live element
DeletedAts == {"", "2023-01-01"}

CategoryRows ==
    { [osm_json |-> [amenity |-> a, tourism |-> t], tags |-> g, deleted_at |-> d] :
        a \in Amenities, t \in Tourisms, g \in StartTags, d \in DeletedAts }

\* the element tables: row i has the key node:i
CategoryTables ==
    { [i \in 1..Len(s) |->
          [id |-> BtcmapId("node", i), osm_json |-> s[i].osm_json, tags |-> s[i].tags,
           deleted_at |-> s[i].deleted_at]] :
        s \in SeqsUpTo(CategoryRows, MaxOsmId) }

\* Element::category_singular: the assignments in the order of the code
CategorySingular(el) ==
    LET amenity == AsStrOrEmpty(el.osm_json.amenity)
        tourism == AsStrOrEmpty(el.osm_json.tourism)
        c0 == "other"
        c1 == IF amenity = "atm" THEN "atm" ELSE c0
        c2 == IF amenity = "cafe" THEN "cafe" ELSE c1
        c3 == IF amenity = "restaurant" THEN "restaurant" ELSE c2
        c4 == IF amenity = "bar" THEN "bar" ELSE c3
        c5 == IF amenity = "pub" THEN "pub" ELSE c4
    IN  IF tourism = "hotel" THEN "hotel" ELSE c5

\* Element::category_plural
CategoryPlural(el) ==
    LET amenity == AsStrOrEmpty(el.osm_json.amenity)
        tourism == AsStrOrEmpty(el.osm_json.tourism)
        c0 == "other"
        c1 == IF amenity = "atm" THEN "atms" ELSE c0
        c2 == IF amenity = "cafe" THEN "cafes" ELSE c1
        c3 == IF amenity = "restaurant" THEN "restaurants" ELSE c2
        c4 == IF amenity = "bar" THEN "bars" ELSE c3
        c5 == IF amenity = "pub" THEN "pubs" ELSE c4
    IN  IF tourism = "hotel" THEN "hotels" ELSE c5

\* a reading of the stored tag that never finds a text
OldCategoryNone(el, name) == ""

\* element.tags[name].as_str().unwrap_or("")
OldCategory(el, name) == AsStrOrEmpty(el.tags[name])

\* element::INSERT_TAG: the tag of the row with this id is set to the text
ElementInsertTag(rows, id, name, value) ==
    [i \in 1..Len(rows) |->
        IF rows[i].id = id THEN [rows[i] EXCEPT !.tags[name] = JsonStr(value)] ELSE rows[i]]

\* .filter(|it| it.deleted_at.len() == 0)
RECURSIVE WithoutDeletedAt(_)
WithoutDeletedAt(rows) ==
    IF Len(rows) = 0 THEN <<>>
    ELSE IF Len(Head(rows).deleted_at) = 0
    THEN << Head(rows) >> \o WithoutDeletedAt(Tail(rows))
    ELSE WithoutDeletedAt(Tail(rows))

\* the tag statements of one iteration: the category first, then the plural
WriteSingular(rows, el) ==
    IF CategorySingular(el) # OldCategory(el, "category")
    THEN ElementInsertTag(rows, el.id, "category", CategorySingular(el))
    ELSE rows

WritePlural(rows, el) ==
    IF CategoryPlural(el) # OldCategory(el, "plural")
    THEN ElementInsertTag(rows, el.id, "plural", CategoryPlural(el))
    ELSE rows

\* number of statements of one iteration
TagWrites(el) ==
    (IF CategorySingular(el) # OldCategory(el, "category") THEN 1 ELSE 0)
        + (IF CategoryPlural(el) # OldCategory(el, "plural") THEN 1 ELSE 0)

\* known += 1 unless the category is "other"
CountCategory(c, el) ==
    IF CategorySingular(el) = "other"
    THEN [c EXCEPT !.unknown = c.unknown + 1]
    ELSE [c EXCEPT !.known = c.known + 1]

InitCategories ==
    /\ \E t \in CategoryTables :
        /\ db = [EmptyStore EXCEPT !.element = t]
        /\ tx = [EmptyStore EXCEPT !.element = t]
    /\ pc = "idle"
    /\ fresh = EmptyFresh
    /\ elements = [rows |-> <<>>, bulk |-> FALSE]
    /\ idx = 0
    /\ counters = [known |-> 0, unknown |-> 0, writes |-> 0]
    /\ msgs = <<>>
    /\ sec = NoLookup
    /\ actor = NoActor
    /\ seen = NoResponse
    /\ delivery = "none"
    /\ run2 = NoRun
    /\ outcome = "none"
    /\ lastIds = {}
    /\ today = 1
    /\ cycles = 0

\* run() up to the loop: the live elements are read
CategoriesBegin ==
    /\ pc = "idle"
    /\ cycles < MaxCycles
    /\ cycles' = cycles + 1
    /\ pc' = "categories"
    /\ elements' = [rows |-> WithoutDeletedAt(db.element), bulk |-> FALSE]
    /\ idx' = 1
    /\ counters' = [known |-> 0, unknown |-> 0, writes |-> 0]
    /\ outcome' = "none"
    /\ UNCHANGED <<db, tx, fresh, msgs, sec, actor, seen, delivery, run2, lastIds, today>>

\* one iteration of the loop over the elements that were read
CategoriesStep ==
    /\ pc = "categories"
    /\ idx <= Len(elements.rows)
    /\ LET el == elements.rows[idx]
       IN  /\ db' = [db EXCEPT !.element = WritePlural(WriteSingular(db.element, el), el)]
           /\ tx' = [tx EXCEPT !.element = WritePlural(WriteSingular(db.element, el), el)]
           /\ counters' = [CountCategory(counters, el) EXCEPT
                              !.writes = counters.writes + TagWrites(el)]
    /\ idx' = idx + 1
    /\ UNCHANGED <<pc, fresh, elements, msgs, sec, actor, seen, delivery, run2, outcome, lastIds, today, cycles>>

\* a tag statement returns an error: run() returns it.  At the category
\* statement nothing of the iteration is done; at the plural statement the
\* category is written and counted
CategoriesFail ==
    /\ pc = "categories"
    /\ idx <= Len(elements.rows)
    /\ LET el == elements.rows[idx]
       IN  \/ /\ CategorySingular(el) # OldCategory(el, "category")
              /\ UNCHANGED <<db, tx, counters>>
           \/ /\ CategoryPlural(el) # OldCategory(el, "plural")
              /\ db' = [db EXCEPT !.element = WriteSingular(db.element, el)]
              /\ tx' = [tx EXCEPT !.element = WriteSingular(db.element, el)]
              /\ counters' = [CountCategory(counters, el) EXCEPT
                                 !.writes = counters.writes
                                     + (IF CategorySingular(el) # OldCategory(el, "category")
                                        THEN 1 ELSE 0)]
    /\ pc' = "idle"
    /\ outcome' = "categories_failed"
    /\ UNCHANGED <<fresh, elements, idx, msgs, sec, actor, seen, delivery, run2, lastIds, today, cycles>>

\* the loop is through: the line with the two counters is logged
CategoriesFinish ==
    /\ pc = "categories"
    /\ idx > Len(elements.rows)
    /\ pc' = "idle"
    /\ outcome' = "categories_done"
    /\ msgs' = Append(msgs, [kind |-> "categories", known |-> counters.known,
                             unknown |-> counters.unknown, writes |-> counters.writes,
                             found |-> Len(elements.rows)])
    /\ UNCHANGED <<db, tx, fresh, elements, idx, counters, sec, actor, seen, delivery, run2, lastIds, today, cycles>>

NextCategories ==
    \/ CategoriesBegin
    \/ CategoriesStep
    \/ CategoriesFail
    \/ CategoriesFinish

SpecCategories == InitCategories /\ [][NextCategories]_vars

\* ------------------------------------- two runs of generate_reports at once
\* Nothing in run() keeps a second process from running it against the same
\* database file. The first run is the one of the actions above; the second
\* one is held in run2. SQLite lets one connection write at a time, so the
\* transactions of the two runs follow one another; the check for today's
\* reports is read before the transaction opens, by a statement of its own,
\* and sees the committed table whatever the other run has staged.

InTransaction == {"gen", "gencommit"}

\* the first run opens its transaction while the second has none open
Run1Begin ==
    /\ run2.pc \notin InTransaction
    /\ RunBegin

\* Report::select_by_date(today) of the second run: reports of today end the
\* run, none lets it go on
Run2Check ==
    /\ run2.pc = "idle"
    /\ cycles < MaxCycles
    /\ cycles' = cycles + 1
    /\ run2' = IF HasTodayReports(db.report, today)
               THEN run2
               ELSE [run2 EXCEPT !.pc = "checked"]
    /\ UNCHANGED <<db, tx, pc, fresh, elements, idx, counters, msgs, sec, actor, seen, delivery,
                   outcome, lastIds, today>>

\* the second run reads the elements and the areas and opens its transaction
Run2Begin ==
    /\ run2.pc = "checked"
    /\ pc \notin InTransaction
    /\ run2' = [pc |-> AfterArea(SelectLiveAreas(db), 0),
                elements |-> SelectLiveElements(db),
                idx |-> 1,
                report |-> db.report]
    /\ UNCHANGED <<db, tx, pc, fresh, elements, idx, counters, msgs, sec, actor, seen, delivery,
                   outcome, lastIds, today, cycles>>

\* one iteration of the loop over the areas, on the report table of the
\* transaction: the earth area gets its report unconditionally, an area
\* without a usable boundary is skipped, any other area gets a report when
\* it has none or the tags differ from those of its latest one
ReportsAfterArea(reports, area, els, now) ==
    IF IsEarth(area)
    THEN InsertReport(reports, area.id, GenerateReportTags(EarthElements(els), els, now), now)
    ELSE IF area.geo_json.kind = "null"
    THEN reports
    ELSE IF area.geo_json.kind = "object" /\ ~area.geo_json.parsed
    THEN reports
    ELSE LET new_report_tags == GenerateReportTags(AreaElements(area, els), els, now)
             prev_report == SelectLatestByAreaId(reports, area.id)
         IN  IF prev_report = 0
             THEN InsertReport(reports, area.id, new_report_tags, now)
             ELSE IF TagsDiffer(new_report_tags, reports[prev_report].tags)
                  THEN InsertReport(reports, area.id, new_report_tags, now)
                  ELSE reports

Run2Area ==
    /\ run2.pc = "gen"
    /\ run2' = [run2 EXCEPT
                  !.report = ReportsAfterArea(run2.report, SelectLiveAreas(db)[run2.idx],
                                              run2.elements, today),
                  !.idx = run2.idx + 1,
                  !.pc = AfterArea(SelectLiveAreas(db), run2.idx)]
    /\ UNCHANGED <<db, tx, pc, fresh, elements, idx, counters, msgs, sec, actor, seen, delivery,
                   outcome, lastIds, today, cycles>>

\* tx.commit() of the second run
Run2Commit ==
    /\ run2.pc = "gencommit"
    /\ db' = [db EXCEPT !.report = run2.report]
    /\ tx' = [db EXCEPT !.report = run2.report]
    /\ run2' = NoRun
    /\ UNCHANGED <<pc, fresh, elements, idx, counters, msgs, sec, actor, seen, delivery,
                   outcome, lastIds, today, cycles>>

\* a store call of the second run returns an error: its transaction is dropped
Run2Fail ==
    /\ run2.pc \in InTransaction
    /\ run2' = NoRun
    /\ UNCHANGED <<db, tx, pc, fresh, elements, idx, counters, msgs, sec, actor, seen, delivery,
                   outcome, lastIds, today, cycles>>

\* the clock passes midnight while the second run is in its loop
TickRun2 ==
    /\ run2.pc = "gen"
    /\ today < MaxDay
    /\ today' = today + 1
    /\ UNCHANGED <<db, tx, pc, fresh, elements, idx, counters, msgs, sec, actor, seen, delivery,
                   run2, outcome, lastIds, cycles>>

NextTwoRuns ==
    \/ TickReports
    \/ RunAbortToday
    \/ Run1Begin
    \/ RunEarth
    \/ RunSkipNoGeoJson
    \/ RunSkipParseError
    \/ RunArea
    \/ RunCommit
    \/ RunFail
    \/ Run2Check
    \/ Run2Begin
    \/ Run2Area
    \/ Run2Commit
    \/ Run2Fail
    \/ TickRun2

SpecTwoRuns == InitReports /\ [][NextTwoRuns]_vars

\* ------------------------------------------------- vocabulary of the claims
Keys == { BtcmapId("node", i) : i \in OsmIds }

\* the events a transaction adds to the committed ones
NewEvents(pre, post) == SubSeq(post.event, Len(pre.event) + 1, Len(post.event))

CountEvents(evs, id, type) ==
    Cardinality({ i \in 1..Len(evs) : evs[i].element_id = id /\ evs[i].type = type })

CountAllEvents(evs, id) == Cardinality({ i \in 1..Len(evs) : evs[i].element_id = id })

CountRows(rows, id) == Cardinality({ i \in 1..Len(rows) : rows[i].id = id })

RowOf(rows, id) == rows[RowIndex(rows, id)]

\* the items of the response that carry this key
ItemsOf(f, id) == { i \in 1..Len(f.items) : ItemKey(f.items[i]) = id }

Notified(id) == \E i \in 1..Len(msgs) : msgs[i].id = id

\* the step that commits the running cycle: db is the store before the
\* cycle, db' the store after it
Committing == pc = "commit" /\ outcome' = "committed"

\* ------------------------------------------------------------------- C1
\* C1: a cycle is all-or-nothing.  The committed tables change in one step
\* only, the commit, which publishes every staged write together; a cycle that
\* ends in any other way (crash, exit, panic, failing write) leaves the
\* committed tables as they were and keeps nothing staged.
C1_AllOrNothing ==
    [][ /\ (db' # db => pc = "commit" /\ outcome' = "committed" /\ db' = tx)
        /\ (pc # "idle" /\ pc' = "idle" /\ outcome' # "committed" => db' = db /\ tx' = db)
      ]_vars

\* a cycle that had staged a change (its message went out) has been aborted
C1_Witness ==
    /\ outcome \in {"panic", "crash", "contradiction"}
    /\ \E i \in 1..Len(msgs) : msgs[i].kind \in {"added", "updated", "deleted"}
    /\ pc = "idle"

\* ------------------------------------------------------------------- C2
\* C2: a committing cycle writes exactly one delete event for every stored,
\* not soft-deleted element whose key is missing from the response and sets
\* its deleted_at; a cycle in which the contradiction check fires commits
\* nothing.
C2_DeleteMissing ==
    [][ /\ Committing =>
             \A i \in 1..Len(db.element) :
                LET id == db.element[i].id
                IN  db.element[i].deleted_at = NULL /\ id \notin FreshElementIds(fresh) =>
                       /\ CountEvents(NewEvents(db, db'), id, "delete") = 1
                       /\ CountAllEvents(NewEvents(db, db'), id) = 1
                       /\ RowOf(db'.element, id).deleted_at # NULL
        /\ outcome' = "contradiction" => db' = db /\ tx' = db /\ pc' = "idle"
      ]_vars

\* a committed cycle has soft-deleted an element that its response lacked
C2_Witness ==
    /\ outcome = "committed"
    /\ \E i \in 1..Len(db.element), j \in 1..Len(msgs) :
        /\ msgs[j] = [kind |-> "deleted", id |-> db.element[i].id]
        /\ db.element[i].deleted_at # NULL
        /\ db.element[i].id \notin lastIds

\* ------------------------------------------------------------------- C3
\* C3: a stored, not soft-deleted element that the response reports with the
\* stored payload (every item of its key serializes to the stored data) gets
\* no audit event and no message, and its row (data, updated_at, deleted_at)
\* is left as it was.
C3_UnchangedIsNoop ==
    [][ Committing =>
          \A i \in 1..Len(db.element) :
             LET row == db.element[i]
             IN  /\ row.deleted_at = NULL
                 /\ ItemsOf(fresh, row.id) # {}
                 /\ \A k \in ItemsOf(fresh, row.id) : ToJsonString(fresh.items[k]) = row.data
                 => /\ CountAllEvents(NewEvents(db, db'), row.id) = 0
                    /\ ~Notified(row.id)
                    /\ db'.element[i] = row
      ]_vars

\* a committed cycle met an element created on an earlier day and left it alone
C3_Witness ==
    /\ outcome = "committed"
    /\ \E i \in 1..Len(db.element) :
        /\ db.element[i].id \in FreshElementIds(fresh)
        /\ db.element[i].updated_at < today
        /\ db.element[i].deleted_at = NULL
        /\ ~Notified(db.element[i].id)

\* ------------------------------------------------------------------- C4
\* C4: a soft-deleted element whose key is in the response again has its
\* deleted_at cleared by the committing cycle, on the row it already had,
\* under the same key, and no second row of that key appears.
C4_Revival ==
    [][ Committing =>
          \A i \in 1..Len(db.element) :
             db.element[i].deleted_at # NULL /\ db.element[i].id \in FreshElementIds(fresh) =>
                /\ db'.element[i].id = db.element[i].id
                /\ db'.element[i].deleted_at = NULL
                /\ CountRows(db'.element, db.element[i].id) = 1
      ]_vars

\* an element with a delete event in its history is live again
C4_Witness ==
    /\ outcome = "committed"
    /\ \E i \in 1..Len(db.element) :
        /\ CountEvents(db.event, db.element[i].id, "delete") > 0
        /\ db.element[i].deleted_at = NULL
        /\ db.element[i].id \in lastIds

\* ------------------------------------------------------------------- C5
\* C5: in every cycle at most one audit event is written per element key.
C5_OneEventPerKey ==
    \A id \in Keys : CountAllEvents(NewEvents(db, tx), id) <= 1

\* ------------------------------------------------------------------- C6
\* C6: in the committed store an element has deleted_at = NULL exactly when
\* its key was in the response of the most recent committed cycle.
C6_LiveIffFetched ==
    /\ \A i \in 1..Len(db.element) :
          (db.element[i].deleted_at = NULL) <=> (db.element[i].id \in lastIds)
    /\ db.bulk => BulkId \in lastIds

\* the committed store holds a live and a soft-deleted element
C6_Witness ==
    /\ \E i \in 1..Len(db.element) : db.element[i].deleted_at # NULL
    /\ \E i \in 1..Len(db.element) : db.element[i].deleted_at = NULL

\* ------------------------------------------------------------------- C7
\* C7: for every item whose key has no stored element a committing cycle
\* inserts exactly one row of that key with the item's payload and
\* deleted_at NULL and writes exactly one create event for the key.
C7_CreateNew ==
    [][ Committing =>
          \A k \in 1..Len(fresh.items) :
             LET id == ItemKey(fresh.items[k])
             IN  ~HasRow(db.element, id) =>
                    /\ CountRows(db'.element, id) = 1
                    /\ RowOf(db'.element, id).data = ToJsonString(fresh.items[k])
                    /\ RowOf(db'.element, id).deleted_at = NULL
                    /\ CountEvents(NewEvents(db, db'), id, "create") = 1
                    /\ CountAllEvents(NewEvents(db, db'), id) = 1
      ]_vars

\* a committed cycle has added an element to a store that held another one
C7_Witness ==
    /\ outcome = "committed"
    /\ Len(db.element) > 1
    /\ \E j \in 1..Len(msgs) :
        /\ msgs[j].kind = "added"
        /\ msgs[j].id \in Keys
        /\ HasRow(db.element, msgs[j].id)

\* ------------------------------------------------------------------- C8
\* C8: for every item whose key has a stored element with a different
\* serialized payload the cycle writes exactly one update event for that key
\* and the stored payload becomes the fetched one.
C8_UpdateChanged ==
    pc = "commit" =>
       \A k \in 1..Len(fresh.items) :
          LET id == ItemKey(fresh.items[k])
          IN  HasRow(db.element, id) /\ RowOf(db.element, id).data # ToJsonString(fresh.items[k]) =>
                 /\ CountEvents(NewEvents(db, tx), id, "update") = 1
                 /\ \E m \in ItemsOf(fresh, id) :
                        RowOf(tx.element, id).data = ToJsonString(fresh.items[m])

\* ------------------------------------------------------------------- C9
\* C9: a soft-deleted element that the response reports again with the stored
\* payload (every item of its key serializes to the stored data) has its
\* deleted_at cleared and gets no audit event of any kind.
C9_SilentRevival ==
    [][ Committing =>
          \A i \in 1..Len(db.element) :
             LET row == db.element[i]
             IN  /\ row.deleted_at # NULL
                 /\ ItemsOf(fresh, row.id) # {}
                 /\ \A k \in ItemsOf(fresh, row.id) : ToJsonString(fresh.items[k]) = row.data
                 => /\ db'.element[i].deleted_at = NULL
                    /\ db'.element[i].data = row.data
                    /\ CountAllEvents(NewEvents(db, db'), row.id) = 0
      ]_vars

\* an element is live again and the last event of its key is its delete event
C9_Witness ==
    /\ outcome = "committed"
    /\ \E i \in 1..Len(db.element) :
        LET id == db.element[i].id
        IN  /\ db.element[i].deleted_at = NULL
            /\ \E e \in 1..Len(db.event) :
                /\ db.event[e].element_id = id
                /\ db.event[e].type = "delete"
                /\ \A l \in (e + 1)..Len(db.event) : db.event[l].element_id # id

\* ------------------------------------------------------------------ C10
\* C10: in a deletion step that asked the secondary source, the run ends with
\* the contradiction exactly when the source returned a record that is not
\* marked invisible and has currency:XBT or payment:bitcoin equal to yes; for
\* a record that is invisible or has neither tag the run goes on, and the
\* element gets one delete event and a deleted_at.
C10_ContradictionCheck ==
    [][ pc = "delete" /\ sec'.asked =>
          LET id == elements.rows[idx].id
              fires == /\ sec'.found
                       /\ sec'.visible # "false"
                       /\ (sec'.xbt = "yes" \/ sec'.legacy = "yes")
              harmless == /\ sec'.found
                          /\ \/ sec'.visible = "false"
                             \/ (sec'.xbt # "yes" /\ sec'.legacy # "yes")
          IN  /\ (outcome' = "contradiction") <=> fires
              /\ harmless =>
                    /\ outcome' = "running"
                    /\ tx'.event = Append(tx.event, tx'.event[Len(tx'.event)])
                    /\ tx'.event[Len(tx'.event)].element_id = id
                    /\ tx'.event[Len(tx'.event)].type = "delete"
                    /\ RowOf(tx'.element, id).deleted_at # NULL
      ]_vars

\* the check fired on a record that has no visible member and the legacy tag
C10_Witness ==
    /\ outcome = "contradiction"
    /\ sec.found
    /\ sec.visible = "absent"
    /\ sec.legacy = "yes"

\* ------------------------------------------------------------------ C11
\* C11: a deletion step whose secondary lookup yields no record does not end
\* the cycle: the cycle is still running afterwards, and the step has written
\* a delete event with actor id 0 and an empty display name, has added no
\* actor, and has set deleted_at on the element.
C11_NoRecordDeletes ==
    sec.asked /\ ~sec.found =>
       /\ outcome = "running"
       /\ Len(tx.event) > Len(db.event)
       /\ tx.event[Len(tx.event)].type = "delete"
       /\ tx.event[Len(tx.event)].user_id = 0
       /\ tx.event[Len(tx.event)].user = ""
       /\ tx.user = db.user
       /\ RowOf(tx.element, tx.event[Len(tx.event)].element_id).deleted_at # NULL

\* ------------------------------------------------------------------ C12
\* C12: a sync() call on a response of fewer than 5000 elements ends as a
\* rejection: it leaves the committed tables as they were, opens no
\* transaction, hands exactly one message (the operational one) to the
\* notifier and returns with the process alive; a transaction is opened only
\* for a response of at least 5000 elements.
C12_RejectSmall ==
    [][ /\ outcome' = "rejected" =>
             /\ FreshLen(fresh') < MinFreshElements
             /\ db' = db
             /\ tx' = db
             /\ pc' = "idle"
             /\ msgs' = << [kind |-> "suspicious", id |-> <<>>] >>
        /\ pc = "idle" /\ pc' # "idle" => ~(FreshLen(fresh') < MinFreshElements)
      ]_vars

\* a non-empty response has been rejected while the store held elements
C12_Witness ==
    /\ outcome = "rejected"
    /\ Len(fresh.items) > 0
    /\ Len(db.element) > 0
    /\ pc = "idle"

\* ------------------------------------------------------------------ C13
SingleItem ==
    [type |-> "node", id |-> 1, uid |-> MaxUid, user |-> UserName(MaxUid),
     tags |-> OnchainTags]

\* the sync() call is the first one to get a response and it has returned;
\* lastIds = {} says that no cycle has committed into the file before it
FirstCallReturned ==
    /\ pc = "idle"
    /\ outcome \in {"rejected", "committed"}
    /\ cycles = 1

\* C13: from the empty store, the sync() call whose response is the single
\* item node:1 with payment:onchain = yes leaves exactly one create event,
\* exactly one element and a whole-dataset report with total_elements = 1 and
\* total_elements_onchain = 1.
C13_SingleItemScenario ==
    FirstCallReturned /\ lastIds = {} /\ fresh = [items |-> <<SingleItem>>, bulk |-> FALSE] =>
       /\ Len(db.event) = 1
       /\ db.event[1].type = "create"
       /\ Len(db.element) = 1
       /\ Len(db.report) = 1
       /\ db.report[1].area_id = ""
       /\ db.report[1].total_elements = 1
       /\ db.report[1].total_elements_onchain = 1

\* C13 as amended: from the empty store, the single-item response is rejected
\* by the size guard and leaves the store empty; the response that holds
\* node:1 with payment:onchain = yes next to BulkSize (at least 4999)
\* elements of other keys without that tag stages one create event for node:1
\* and one per further element, one element per key, and one whole-dataset
\* report of that day with total_elements = BulkSize + 1 and
\* total_elements_onchain = 1.
C13_ScenarioAtThreshold ==
    /\ FirstCallReturned /\ lastIds = {} /\ fresh = [items |-> <<SingleItem>>, bulk |-> FALSE] =>
          db = EmptyStore /\ outcome = "rejected"
    /\ pc = "commit" /\ db = EmptyStore /\ fresh = [items |-> <<SingleItem>>, bulk |-> TRUE] =>
          /\ Len(tx.element) = 1
          /\ tx.element[1].id = ItemKey(SingleItem)
          /\ tx.element[1].data = ToJsonString(SingleItem)
          /\ tx.bulk
          /\ Len(tx.event) = 2
          /\ CountEvents(tx.event, ItemKey(SingleItem), "create") = 1
          /\ \E e \in 1..2 :
                /\ tx.event[e].element_id = BulkId
                /\ tx.event[e].type = "create"
                /\ tx.event[e].n = BulkSize
          /\ Len(tx.report) = 1
          /\ tx.report[1].area_id = ""
          /\ tx.report[1].date = today
          /\ tx.report[1].total_elements = BulkSize + 1
          /\ tx.report[1].total_elements_onchain = 1

\* the first cycle, on node:1 and the 4999 further elements, is about to commit
C13_Witness ==
    /\ pc = "commit"
    /\ db = EmptyStore
    /\ fresh = [items |-> <<SingleItem>>, bulk |-> TRUE]
    /\ Len(tx.report) = 1

\* ------------------------------------------------------------------ C14
SameRegionAndDate(r, s) == r.area_id = s.area_id /\ r.date = s.date

\* C14: a run of report generation, or a cycle, that commits without having
\* changed an element leaves every stored report row as it is (no tag, no
\* counter changes) and adds no row for a region and date that has one.
C14_Idempotent ==
    [][ db' # db /\ db'.element = db.element /\ db'.bulk = db.bulk =>
          /\ Len(db'.report) >= Len(db.report)
          /\ \A i \in 1..Len(db.report) :
                /\ db'.report[i] = db.report[i]
                /\ \A j \in (Len(db.report) + 1)..Len(db'.report) :
                      ~SameRegionAndDate(db'.report[j], db.report[i])
      ]_vars

\* a second run on a day that has reports of a run has returned at once
C14_Witness ==
    /\ outcome = "gen_aborted"
    /\ \E i \in 1..Len(db.report) : db.report[i].area_id # "" /\ db.report[i].date = today

\* ------------------------------------------------------------------ C15
\* C15: a step of the loop over the areas writes a report only if the area
\* has no report yet or the computed tags differ from those of its latest
\* report; this holds for every area, the whole-dataset area included.
C15_WriteOnlyIfChanged ==
    [][ pc = "gen" /\ idx' = idx + 1 /\ Len(tx'.report) > Len(tx.report) =>
          LET latest == SelectLatestByAreaId(tx.report, CurrentArea.id)
          IN  \/ latest = 0
              \/ tx'.report[Len(tx'.report)].tags # tx.report[latest].tags
      ]_vars

\* C15 as amended: for every area other than the whole-dataset area
\* (url_alias = earth) a step writes a report only if the area has no report
\* yet or the computed tags differ from those of its latest report; for the
\* whole-dataset area every step writes one report, whatever the latest one.
C15_WriteOnlyIfChangedButEarth ==
    [][ pc = "gen" /\ idx' = idx + 1 =>
          LET latest == SelectLatestByAreaId(tx.report, CurrentArea.id)
              wrote  == Len(tx'.report) > Len(tx.report)
              new    == tx'.report[Len(tx'.report)]
          IN  /\ Len(tx'.report) <= Len(tx.report) + 1
              /\ wrote => new.area_id = CurrentArea.id
              /\ IsEarth(CurrentArea) => wrote
              /\ ~IsEarth(CurrentArea) /\ wrote =>
                    latest = 0 \/ new.tags # tx.report[latest].tags
      ]_vars

\* the reports this run has staged for an area
RunRows(area_id) ==
    { i \in (Len(db.report) + 1)..Len(tx.report) : tx.report[i].area_id = area_id }

\* a run has passed all areas: the whole-dataset area got a report with the
\* tags of its latest one, the polygon area, unchanged as well, got none
C15_Witness ==
    /\ pc = "gencommit"
    /\ SelectLatestByAreaId(db.report, "4") # 0
    /\ RunRows("4") = {}
    /\ SelectLatestByAreaId(db.report, "1") # 0
    /\ \E r \in RunRows("1") :
          tx.report[r].tags = db.report[SelectLatestByAreaId(db.report, "1")].tags

\* ------------------------------------------------------------------ C16
\* C16: the committed report table never holds two rows of the same region
\* and date, whatever sequence of cycles and report runs has been executed.
C16_OneReportPerRegionAndDate ==
    \A i, j \in 1..Len(db.report) :
       i # j => ~SameRegionAndDate(db.report[i], db.report[j])

\* a region has reports of two dates, and one date has the report of a cycle
\* next to the report of a run
C16_Witness ==
    /\ \E i, j \in 1..Len(db.report) :
          /\ db.report[i].area_id = db.report[j].area_id
          /\ db.report[i].date # db.report[j].date
    /\ \E i, j \in 1..Len(db.report) :
          /\ db.report[i].area_id = ""
          /\ db.report[j].area_id # ""
          /\ db.report[i].date = db.report[j].date

\* ------------------------------------------------------------------ C17
\* number of elements whose event of this type was written on this day
RECURSIVE EventTotal(_, _, _)
EventTotal(evs, type, day) ==
    IF evs = <<>> THEN 0
    ELSE (IF Head(evs).type = type /\ Head(evs).date = day THEN Head(evs).n ELSE 0)
         + EventTotal(Tail(evs), type, day)

WholeDatasetReports(reports, day) ==
    { i \in 1..Len(reports) : reports[i].area_id = "" /\ reports[i].date = day }

\* C17: the committed store holds at most one whole-dataset report row per
\* day; the cycles that commit on a day with such a row add their counts to
\* it, so that its elements_created, elements_updated and elements_deleted
\* equal the numbers of create, update and delete events committed on that
\* day, and a day without a row has no committed event.
C17_CountersAccumulate ==
    \A d \in Days :
       /\ Cardinality(WholeDatasetReports(db.report, d)) <= 1
       /\ WholeDatasetReports(db.report, d) = {} =>
             \A e \in 1..Len(db.event) : db.event[e].date # d
       /\ \A i \in WholeDatasetReports(db.report, d) :
             /\ db.report[i].elements_created = EventTotal(db.event, "create", d)
             /\ db.report[i].elements_updated = EventTotal(db.event, "update", d)
             /\ db.report[i].elements_deleted = EventTotal(db.event, "delete", d)

\* one row has taken the counts of at least two cycles of its day: elements
\* were created by one and an element was deleted or updated by a later one
C17_Witness ==
    \E i \in 1..Len(db.report) :
       /\ db.report[i].elements_created > 0
       /\ db.report[i].elements_deleted > 0
       /\ db.report[i].elements_updated > 0

\* ------------------------------------------------------------------ C18
\* the stored elements that are not soft-deleted, and those of them with a tag
LiveRows(t) == { i \in 1..Len(t.element) : t.element[i].deleted_at = NULL }

LiveCount(t) == Cardinality(LiveRows(t)) + (IF t.bulk THEN BulkSize ELSE 0)

LiveTagCount(t, name, value) ==
    Cardinality({ i \in LiveRows(t) : Tag(FromJsonString(t.element[i].data), name) = value })

AreasOfRun == { SelectLiveAreas(db)[a] : a \in 1..Len(SelectLiveAreas(db)) }

Qualifying(area) ==
    { i \in LiveRows(db) :
        \E k \in 1..Len(area.geo_json.geometries) :
           /\ area.geo_json.geometries[k].value \in {"Polygon", "MultiPolygon", "LineString"}
           /\ FromJsonString(db.element[i].data).id \in area.geo_json.geometries[k].covers }

\* C19: a report staged for an area with boundary geometries counts exactly
\* the qualifying elements, each of them once: total_elements is their
\* number and total_elements_onchain the number of those tagged on-chain.
C19_CountedOnce ==
    pc = "gencommit" =>
       \A area \in AreasOfRun :
          ~IsEarth(area) /\ area.geo_json.parsed =>
             \A r \in RunRows(area.id) :
                /\ tx.report[r].tags.total_elements = Cardinality(Qualifying(area))
                /\ tx.report[r].tags.total_elements_onchain =
                       Cardinality({ i \in Qualifying(area) :
                           Tag(FromJsonString(db.element[i].data), "payment:onchain") = "yes" })

\* ------------------------------------------------------------------ C20
AllUnsupported(area) ==
    \A k \in 1..Len(area.geo_json.geometries) :
       area.geo_json.geometries[k].value \notin {"Polygon", "MultiPolygon", "LineString"}

C21_Partition ==
    \A i \in 1..Len(db.report) :
       db.report[i].up_to_date_elements + db.report[i].outdated_elements
           = db.report[i].total_elements

\* ------------------------------------------------------------------ C22
\* the rows of the list with a verification date that is not later than today
NonFutureRows ==
    { i \in 1..Len(elements.rows) :
        /\ VerificationDate(elements.rows[i].data).some
        /\ VerificationDate(elements.rows[i].data).day <= today }

\* the rows with a verification date later than today
FutureRows ==
    { i \in 1..Len(elements.rows) :
        /\ VerificationDate(elements.rows[i].data).some
        /\ VerificationDate(elements.rows[i].data).day > today }

\* sum of the timestamps of the rows in NonFutureRows
NonFutureSum ==
    SumUpTo([i \in 1..Len(elements.rows) |->
                IF i \in NonFutureRows
                THEN UnixTimestamp(VerificationDate(elements.rows[i].data).day)
                ELSE 0], Len(elements.rows))

\* C22: the tag map returned by generate_report_tags counts every element of
\* the list in total_elements; it has no avg_verification_date when no element
\* has a verification date that is not later than now, and otherwise its
\* avg_verification_date is the mean (to the second) of exactly those dates:
\* future dates and elements without a date are neither in the sum nor in the
\* divisor.
C22_AvgVerificationDate ==
    pc = "tagsdone" =>
       /\ outcome.total_elements
             = Len(elements.rows) + (IF elements.bulk THEN BulkSize ELSE 0)
       /\ NonFutureRows = {} => "avg_verification_date" \notin DOMAIN outcome
       /\ NonFutureRows # {} =>
             /\ "avg_verification_date" \in DOMAIN outcome
             /\ LET avg == outcome.avg_verification_date[1] * SecondsPerDay
                               + outcome.avg_verification_date[2]
                    n   == Cardinality(NonFutureRows)
                IN  /\ avg * n <= NonFutureSum
                    /\ NonFutureSum < (avg + 1) * n
                    /\ outcome.avg_verification_date[2] \in 0..(SecondsPerDay - 1)

\* the scenario of the test: one element verified on a past day, one with a
\* date of the future and one without a date; the average is the past day
C22_Witness ==
    /\ pc = "tagsdone"
    /\ Cardinality(NonFutureRows) = 1
    /\ FutureRows # {}
    /\ \E i \in 1..Len(elements.rows) : ~VerificationDate(elements.rows[i].data).some
    /\ "avg_verification_date" \in DOMAIN outcome
    /\ \A i \in NonFutureRows :
          outcome.avg_verification_date = <<VerificationDate(elements.rows[i].data).day, 0>>
    /\ outcome.total_elements = Len(elements.rows)

\* ------------------------------------------------------------------ C23
\* C23: the resolution of the actor id 0 does not read the user table, makes
\* no lookup and inserts nothing, the step leaves the user table as it was,
\* and no row of the user table, staged or committed, ever has the id 0.
C23_ActorZeroUntouched ==
    [][ /\ actor'.called /\ actor'.uid = 0 =>
              /\ ~actor'.read
              /\ actor'.lookup = "none"
              /\ ~actor'.inserted
              /\ tx'.user = tx.user
        /\ \A i \in 1..Len(tx'.user) : tx'.user[i].id # 0
        /\ \A i \in 1..Len(db'.user) : db'.user[i].id # 0
      ]_vars

\* a cycle has committed the change of an explicit item attributed to the id 0
\* next to a change by a stored actor
C23_Witness ==
    /\ outcome = "committed"
    /\ \E e \in 1..Len(db.event) :
          db.event[e].user_id = 0 /\ db.event[e].element_id \in Keys
    /\ Len(db.user) > 0

\* ------------------------------------------------------------------ C24
\* the user table has a row of this actor
StoredActor(users, uid) == \E i \in 1..Len(users) : users[i].id = uid

\* the step has resolved an actor whose lookup failed
LookupFailed == actor'.called /\ actor'.lookup = "failed"

\* C24: a step whose actor lookup fails writes no row of the user table and
\* does not end the cycle, and it writes the change of the element and its
\* audit event as with a lookup that succeeds: the event names the actor id and
\* the display name of the response, a deleted element gets its deleted_at, a
\* created or updated one its row with the fetched payload.
C24_LookupFailureContinues ==
    [][ LookupFailed =>
          /\ tx'.user = tx.user
          /\ pc' \in {"delete", "upsert", "bulk", "report"}
          /\ outcome' = "running"
          /\ Len(tx'.event) = Len(tx.event) + 1
          /\ SubSeq(tx'.event, 1, Len(tx.event)) = tx.event
          /\ pc = "delete" =>
                LET id == elements.rows[idx].id
                IN  /\ tx'.event[Len(tx'.event)] =
                          [element_id |-> id, type |-> "delete", user_id |-> sec'.uid,
                           user |-> UserName(sec'.uid), date |-> today, n |-> 1]
                    /\ RowOf(tx'.element, id).deleted_at # NULL
                    /\ counters'.deleted = counters.deleted + 1
          /\ pc = "upsert" =>
                LET it == fresh.items[idx]
                    id == ItemKey(it)
                IN  /\ tx'.event[Len(tx'.event)] =
                          [element_id |-> id,
                           type |-> IF HasRow(elements.rows, id) THEN "update" ELSE "create",
                           user_id |-> it.uid, user |-> it.user, date |-> today, n |-> 1]
                    /\ RowOf(tx'.element, id).data = ToJsonString(it)
                    /\ RowOf(tx'.element, id).deleted_at = NULL
                    /\ counters'.created + counters'.updated
                          = counters.created + counters.updated + 1
      ]_vars

\* a cycle has committed an event of an actor whose lookup failed: the user
\* table has no row of that actor
C24_Witness ==
    /\ outcome = "committed"
    /\ \E e \in 1..Len(db.event) :
          /\ db.event[e].user_id # 0
          /\ ~StoredActor(db.user, db.event[e].user_id)

\* ------------------------------------------------------------------ C25
\* C25: the user table, staged or committed, never has two rows of one actor
\* id; a row is inserted only by a resolution whose lookup succeeded, for a
\* non-zero id that had no row, and is appended to the table; the resolution
\* of an actor that has a row makes no lookup and no write; a row, once
\* there, is never changed or removed by a step of the cycle or by its commit.
C25_ActorInsertedOnce ==
    [][ /\ \A i, j \in 1..Len(tx'.user) : tx'.user[i].id = tx'.user[j].id => i = j
        /\ \A i, j \in 1..Len(db'.user) : db'.user[i].id = db'.user[j].id => i = j
        /\ actor'.called /\ actor'.uid # 0 /\ StoredActor(tx.user, actor'.uid) =>
              /\ actor'.lookup = "none"
              /\ ~actor'.inserted
              /\ tx'.user = tx.user
        /\ tx'.user # tx.user /\ pc # "idle" /\ pc' # "idle" =>
              /\ actor'.inserted
              /\ actor'.lookup = "ok"
              /\ actor'.uid # 0
              /\ ~StoredActor(tx.user, actor'.uid)
              /\ Len(tx'.user) = Len(tx.user) + 1
              /\ SubSeq(tx'.user, 1, Len(tx.user)) = tx.user
              /\ tx'.user[Len(tx'.user)].id = actor'.uid
        /\ actor'.called /\ actor'.lookup = "ok" => actor'.inserted
        /\ Len(db'.user) >= Len(db.user)
        /\ SubSeq(db'.user, 1, Len(db.user)) = db.user
      ]_vars

\* a later cycle meets an actor that an earlier cycle has stored: no lookup
C25_Witness ==
    /\ pc # "idle"
    /\ actor.called
    /\ actor.uid # 0
    /\ StoredActor(db.user, actor.uid)
    /\ actor.lookup = "none"
    /\ tx.user = db.user

\* ------------------------------------------------------------------ C26
\* the open transaction has staged nothing of an upsert pass: no create or
\* update event, no new row, no payload overwrite, no revival
NoUpsertStaged ==
    /\ \A e \in 1..Len(NewEvents(db, tx)) : NewEvents(db, tx)[e].type = "delete"
    /\ Len(tx.element) = Len(db.element)
    /\ tx.bulk = db.bulk
    /\ \A i \in 1..Len(db.element) :
          /\ tx.element[i].data = db.element[i].data
          /\ db.element[i].deleted_at # NULL => tx.element[i].deleted_at = db.element[i].deleted_at

\* the step stages a delete event or assigns a deleted_at
WritesDeletion ==
    \/ /\ Len(tx'.event) > Len(tx.event)
       /\ tx'.event[Len(tx'.event)].type = "delete"
    \/ \E i \in 1..Len(tx.element) :
          /\ i <= Len(tx'.element)
          /\ tx'.element[i].deleted_at # NULL
          /\ tx'.element[i].deleted_at # tx.element[i].deleted_at

\* C26: within a cycle every delete event and every assignment of deleted_at
\* is written by the deletion pass, while the transaction has staged nothing
\* of the upsert pass, and once the upsert pass has begun the cycle does not
\* return to the deletion pass.
C26_DeleteBeforeUpsert ==
    [][ /\ pc # "idle" /\ pc' # "idle" /\ WritesDeletion => pc = "delete" /\ NoUpsertStaged
        /\ pc \in {"upsert", "bulk", "report", "commit"} => pc' # "delete"
      ]_vars

\* a cycle that is about to commit has staged a delete event and, after it, a
\* create or an update event
C26_Witness ==
    /\ pc = "commit"
    /\ \E d, u \in 1..Len(NewEvents(db, tx)) :
          /\ d < u
          /\ NewEvents(db, tx)[d].type = "delete"
          /\ NewEvents(db, tx)[u].type \in {"create", "update"}
          /\ NewEvents(db, tx)[u].element_id \in Keys

\* ------------------------------------------------------------------ C27
\* C27: the deletion pass skips an element that is soft-deleted and missing
\* from the response: its step asks the secondary source nothing and writes
\* nothing, and the cycle commits the row as it was (deleted_at and updated_at
\* included) with no further event of that element, so that the element keeps
\* the one delete event of its deletion however many fetches it is absent from.
C27_SkipSoftDeleted ==
    [][ /\ (pc = "delete" /\ pc' # "idle" /\ elements.rows[idx].deleted_at # NULL
               /\ elements.rows[idx].id \notin FreshElementIds(fresh)) =>
              /\ ~sec'.asked
              /\ ~actor'.called
              /\ tx' = tx
              /\ msgs' = msgs
              /\ counters' = counters
        /\ Committing =>
              \A i \in 1..Len(db.element) :
                 (db.element[i].deleted_at # NULL
                    /\ db.element[i].id \notin FreshElementIds(fresh)) =>
                    /\ db'.element[i] = db.element[i]
                    /\ CountAllEvents(NewEvents(db, db'), db.element[i].id) = 0
                    /\ CountEvents(db'.event, db.element[i].id, "delete")
                          = CountEvents(db.event, db.element[i].id, "delete")
      ]_vars

\* a cycle has committed today without an element that an earlier day's cycle
\* soft-deleted: the element has its one delete event and its deleted_at
C27_Witness ==
    /\ outcome = "committed"
    /\ pc = "idle"
    /\ \E r \in 1..Len(db.report) : db.report[r].date = today
    /\ \E i \in 1..Len(db.element) :
          /\ db.element[i].deleted_at # NULL
          /\ db.element[i].deleted_at < today
          /\ db.element[i].updated_at < today
          /\ db.element[i].id \notin lastIds
          /\ CountEvents(db.event, db.element[i].id, "delete") = 1

\* ------------------------------------------------------------------ C28
\* the body that get() returns for a store
ResponseOf(t) ==
    [served |-> TRUE,
     items |-> [i \in 1..Len(t.element) |-> IntoGetItem(t.element[i])],
     bulk |-> t.bulk]

\* C28: a response of GET /v2/elements served while a reconciliation cycle is
\* open shows the element table as it was committed before the cycle, whatever
\* the cycle has staged; the table on disk changes only in the one step of
\* the commit, to the complete state that the cycle has staged, so that a
\* response served after that step shows all of the cycle's element writes.
C28_ReaderSeesCommitted ==
    [][ /\ seen'.served => seen' = ResponseOf(db) /\ db' = db /\ tx' = tx /\ pc' = pc
        /\ db' # db => Committing /\ db' = tx
      ]_vars

\* a response has been served between two steps of a cycle that has staged
\* element writes: it shows none of them
C28_Witness ==
    /\ seen.served
    /\ pc \in {"delete", "upsert", "bulk", "report", "commit"}
    /\ tx.element # db.element
    /\ tx.event # db.event
    /\ seen = ResponseOf(db)
    /\ seen # ResponseOf(tx)

\* ------------------------------------------------------------------ C29
\* the steps of sync() that hand a message to the notifier
SendingStep ==
    \/ SyncRejectSmall
    \/ DeleteContradiction
    \/ DeleteApply
    \/ UpsertUpdate
    \/ UpsertCreate
    \/ UpsertInsertConflict
    \/ UpsertBulkCreate

\* the message that the step has handed over
LastMessage == msgs'[Len(msgs')]

LastEvent == tx'.event[Len(tx'.event)]

\* C29: what a step writes is decided by the message it hands to the notifier
\* and not by what becomes of the message.  Whenever such a step can be taken
\* it can be taken with the message delivered, with the delivery failed and
\* without a configured notifier; and in each of the three cases the committed
\* tables stay as they are, the cycle goes on unless the step is the size
\* guard, the contradiction check or a key conflict (which end it in each of
\* the three cases), and the transaction has staged the event and the element
\* write that the message announces.
C29_DeliveryIndependent ==
    /\ [](ENABLED SendingStep => \A d \in Deliveries : ENABLED (SendingStep /\ delivery' = d))
    /\ [][ delivery' # "none" =>
              /\ Len(msgs') > 0
              /\ db' = db
              /\ LastMessage.kind = "suspicious" => outcome' = "rejected" /\ tx' = tx
              /\ LastMessage.kind = "lied" => outcome' = "contradiction" /\ tx' = db
              /\ LastMessage.kind = "deleted" =>
                    /\ pc' # "idle"
                    /\ Len(tx'.event) = Len(tx.event) + 1
                    /\ LastEvent.type = "delete"
                    /\ LastEvent.element_id = LastMessage.id
                    /\ RowOf(tx'.element, LastMessage.id).deleted_at # NULL
              /\ LastMessage.kind = "updated" =>
                    /\ pc' # "idle"
                    /\ Len(tx'.event) = Len(tx.event) + 1
                    /\ LastEvent.type = "update"
                    /\ LastEvent.element_id = LastMessage.id
                    /\ RowOf(tx'.element, LastMessage.id).data = ToJsonString(fresh.items[idx])
              /\ LastMessage.kind = "added" =>
                    IF LastMessage.id # BulkId /\ HasRow(tx.element, LastMessage.id)
                    THEN outcome' = "panic" /\ tx' = db
                    ELSE /\ pc' # "idle"
                         /\ Len(tx'.event) = Len(tx.event) + 1
                         /\ LastEvent.type = "create"
                         /\ LastEvent.element_id = LastMessage.id
                         /\ \/ LastMessage.id = BulkId /\ tx'.bulk
                            \/ /\ LastMessage.id # BulkId
                               /\ RowOf(tx'.element, LastMessage.id).data
                                     = ToJsonString(fresh.items[idx])
      ]_vars

\* the delivery of a change message has failed: the cycle is still running
\* and has staged the change
C29_Witness ==
    /\ delivery = "failed"
    /\ pc \in {"delete", "upsert", "bulk", "report"}
    /\ Len(msgs) > 0
    /\ msgs[Len(msgs)].kind \in {"added", "updated", "deleted"}
    /\ Len(tx.event) > Len(db.event)
    /\ tx.event[Len(tx.event)].element_id = msgs[Len(msgs)].id

\* ------------------------------------------------------------------ C30
\* C30: a call of sync() that ends with a failed request, an unreadable body
\* or a body without an elements array leaves the committed tables and the
\* transaction view as they were, hands nothing to the notifier, holds no
\* dataset when it returns (the request was sent once) and is over: the next
\* request belongs to the next call.
C30_FetchFailureEndsCycle ==
    [][ (pc = "idle" /\ outcome' \in FetchFailures /\ outcome' # outcome) =>
            /\ db' = db
            /\ tx' = tx
            /\ pc' = "idle"
            /\ fresh' = EmptyFresh
            /\ msgs' = <<>>
            /\ elements' = elements
            /\ counters' = counters
      ]_vars

\* a call has failed at the fetch after an earlier call had committed
\* elements: the tables are those of the earlier call
C30_Witness ==
    /\ outcome \in FetchFailures
    /\ pc = "idle"
    /\ fresh = EmptyFresh
    /\ Len(db.element) > 0
    /\ tx = db

\* ------------------------------------------------------------------ C31
\* the statements of sync() itself: every step but the clock and the kill
SyncStep ==
    \/ FetchFail
    \/ SyncRejectSmall
    \/ SyncBegin
    \/ DeleteSkip
    \/ DeletePanic
    \/ DeleteContradiction
    \/ DeleteApply
    \/ UpsertUpdate
    \/ UpsertRevive
    \/ UpsertNoop
    \/ UpsertCreate
    \/ UpsertInsertConflict
    \/ UpsertBulkNoop
    \/ UpsertBulkCreate
    \/ WriteReport
    \/ Commit
    \/ CommitFail
    \/ WriteFail

\* C31: a request that gets no answer is bounded by a timeout: wherever
\* sync() stands at its Overpass request or at a user request, a step of
\* sync() itself can follow (the failure return after the fetch, the
\* continuation of the loop after the lookup), so that the call ends.
C31_AwaitsBounded == pc \in Pending => ENABLED SyncStep

\* ------------------------------------------------------------------ C33
\* the number of separators of a text
Spaces(s) == Cardinality({ i \in 1..Len(s) : s[i] = " " })

\* the bytes of a header value after its only separator
SecondPart(v) == SubSeq(v, (CHOOSE i \in 1..Len(v) : v[i] = " ") + 1, Len(v))

\* the value has exactly two space-separated parts and the second one is the
\* secret of a stored token
CarriesStoredSecret(tokens, h) ==
    /\ h.present
    /\ Spaces(h.value) = 1
    /\ \E i \in 1..Len(tokens) : tokens[i].secret = SecondPart(h.value)

\* C33 as stated: get_admin_token returns a token if and only if the
\* Authorization header is made of exactly two space-separated parts whose
\* second part is the secret of a stored token; everything else is a 401; the
\* store is never written.
C33_TokenIffTwoParts ==
    [][ pc' = "authdone" =>
            /\ outcome'.ok <=> CarriesStoredSecret(db.token, seen.header)
            /\ ~outcome'.ok => outcome'.status = 401
            /\ db' = db
      ]_vars

\* C33: get_admin_token returns a token if and only if the Authorization
\* header is readable as visible ASCII and is made of exactly two
\* space-separated parts whose second part is the secret of a stored token,
\* and the token it returns is a stored one with that secret; a missing, empty
\* or unreadable header, another number of parts and an unknown secret are
\* each a 401; the store is never written.
C33_TokenIffReadableTwoParts ==
    [][ pc' = "authdone" =>
            /\ outcome'.ok <=>
                  (IsVisible(seen.header.value) /\ CarriesStoredSecret(db.token, seen.header))
            /\ outcome'.ok =>
                  /\ \E i \in 1..Len(db.token) : db.token[i] = outcome'.token
                  /\ outcome'.token.secret = SecondPart(seen.header.value)
            /\ ~outcome'.ok => outcome'.status = 401
            /\ db' = db
            /\ tx' = tx
      ]_vars

\* a header of two parts has brought back the second of two stored tokens
C33_Witness ==
    /\ pc = "authdone"
    /\ outcome.ok
    /\ Len(db.token) = 2
    /\ outcome.token = db.token[2]
    /\ Len(seen.header.value) = MaxHeaderLen

\* ------------------------------------------------------------------ C32
\* C32: audit events are append-only: whatever request the server handles,
\* every event that was stored before is stored afterwards at its place and
\* with the content it had.
C32_EventsAppendOnly ==
    [][ /\ Len(db'.event) >= Len(db.event)
        /\ \A i \in 1..Len(db.event) : db'.event[i] = db.event[i]
      ]_vars

\* ------------------------------------------------------------------ C38
\* the request of the step carries a valid admin credential: for the event
\* and user routes the secret of a stored token in a readable header of two
\* parts, for the area routes what is_from_admin accepts
ValidCredential(req) ==
    IF req.route \in {"events/tags", "users/tags"}
    THEN IsVisible(req.header.value) /\ CarriesStoredSecret(db.token, req.header)
    ELSE IsFromAdmin(req.header)

\* the event, user or area that the request names is stored
TargetStored(req) ==
    CASE req.route = "events/tags" -> req.id \in 1..Len(db.event)
      [] req.route = "users/tags" -> \E i \in 1..Len(db.user) : db.user[i].id = req.id
      [] req.route = "areas/tags" -> \E i \in 1..Len(db.area) : db.area[i].id = req.id
      [] OTHER -> TRUE

\* C38: a tag request for an event or a user, an area creation and an area tag
\* request change the store only with a valid admin credential: a request
\* without one is answered 401 and leaves every table as it was, and a request
\* with one that names an event, user or area that is not stored is answered
\* 404 and leaves every table as it was.
C38_NoWriteWithoutCredential ==
    [][ seen'.served =>
            /\ ~ValidCredential(seen') => (seen'.status = 401 /\ db' = db)
            /\ (ValidCredential(seen') /\ ~TargetStored(seen')) =>
                   (seen'.status = 404 /\ db' = db)
            /\ db' # db => (ValidCredential(seen') /\ seen'.status \in {200, 201})
            /\ tx' = db'
      ]_vars

\* a tag request for a stored event has been refused for its credential,
\* after authorised requests have written an event tag and an area
C38_Witness ==
    /\ seen.served
    /\ seen.route = "events/tags"
    /\ seen.status = 401
    /\ seen.header.present
    /\ seen.id \in 1..Len(db.event)
    /\ TagsOf(db.event[seen.id]) # {}
    /\ Len(db.area) > 0

\* ------------------------------------------------------------------ C39
\* the category tags of a live row are those of its payload
CategoriesSet(row) ==
    /\ row.tags["category"] = JsonStr(CategorySingular(row))
    /\ row.tags["plural"] = JsonStr(CategoryPlural(row))

\* a run of the backfill has gone through all of its elements
SomeRunComplete == Len(msgs) > 0

\* C39: the category backfill is idempotent.  Once a run has gone through all
\* of its elements, every live element carries the category and the plural
\* category of its payload and no later run writes a tag; and in every run
\* known + unknown is the number of elements the loop has gone through, which
\* at the end of a complete run is the number of live elements.
C39_BackfillIdempotent ==
    /\ [](SomeRunComplete =>
            \A i \in 1..Len(db.element) :
                Len(db.element[i].deleted_at) = 0 => CategoriesSet(db.element[i]))
    /\ [][SomeRunComplete => db' = db]_vars
    /\ [](pc = "categories" => counters.known + counters.unknown = idx - 1)
    /\ [](\A i \in 1..Len(msgs) :
            /\ msgs[i].known + msgs[i].unknown = msgs[i].found
            /\ msgs[i].found = Len(WithoutDeletedAt(db.element))
            /\ i > 1 => msgs[i].writes = 0)

\* a second run has ended without a write after a first one that wrote tags
\* and counted a known and an unknown element
C39_Witness ==
    /\ Len(msgs) = 2
    /\ pc = "idle"
    /\ msgs[1].writes > 0
    /\ msgs[1].known > 0
    /\ msgs[1].unknown > 0
    /\ msgs[2].writes = 0

\* C34: when every run of generate_reports has finished, the committed report
\* table holds at most one report for a region and a date, also when two runs
\* were started on the same date
C34_OneReportPerRegionAndDate ==
    (pc = "idle" /\ run2.pc = "idle") =>
        \A i, j \in 1..Len(db.report) :
            (db.report[i].area_id = db.report[j].area_id
             /\ db.report[i].date = db.report[j].date) => i = j

\* C35: a step of a cycle that follows the delivery of an added, updated or
\* deleted message does not end the cycle without its commit (contradiction
\* exit, panic or crash): the change the message reports is not rolled back
ChangeKinds == {"added", "updated", "deleted"}

AbortedOutcomes == {"contradiction", "panic", "crash"}

ChangeMessageDelivered ==
    /\ pc # "idle"
    /\ delivery = "delivered"
    /\ Len(msgs) > 0
    /\ msgs[Len(msgs)].kind \in ChangeKinds

C35_NoAbortAfterChangeMessage ==
    [][ChangeMessageDelivered => outcome' \notin AbortedOutcomes]_vars

\* C36: a key that occurs more than once in the fetched dataset never gives
\* two element rows or two create events of one cycle in the committed store.
\* The committed element table holds at most one row for a key, whatever was
\* fetched, and the events that a commit publishes hold at most one create
\* event for a key.
C36_DuplicateKeyNeverDoubles ==
    /\ [](\A id \in Keys : CountRows(db.element, id) <= 1)
    /\ [][Committing =>
            \A id \in Keys : CountEvents(NewEvents(db, db'), id, "create") <= 1]_vars

\* the upsert pass stands at the second item of a key that was not stored
\* when the cycle began: the row and the create event of the first item are staged
C36_Witness ==
    /\ pc = "upsert"
    /\ idx <= Len(fresh.items)
    /\ Cardinality(ItemsOf(fresh, ItemKey(fresh.items[idx]))) > 1
    /\ FindElement(elements, ItemKey(fresh.items[idx])) = 0
    /\ HasRow(tx.element, ItemKey(fresh.items[idx]))
    /\ CountEvents(NewEvents(db, tx), ItemKey(fresh.items[idx]), "create") = 1

\* C37: a cycle that commits on a date for which the whole-dataset report
\* exists adds no report row and changes, in the rows there are, only the
\* created, updated and deleted counters: every other value stays as the
\* first cycle of the date computed it, whatever this cycle fetched
Totals(r) ==
    [area_id |-> r.area_id,
     date |-> r.date,
     total_elements |-> r.total_elements,
     total_elements_onchain |-> r.total_elements_onchain,
     total_elements_lightning |-> r.total_elements_lightning,
     total_elements_lightning_contactless |-> r.total_elements_lightning_contactless,
     up_to_date_elements |-> r.up_to_date_elements,
     outdated_elements |-> r.outdated_elements,
     legacy_elements |-> r.legacy_elements]

C37_OnlyCountersChange ==
    [][(Committing /\ ReportSelectByAreaIdAndDate(db.report, "", today) # 0) =>
            /\ Len(db'.report) = Len(db.report)
            /\ \A i \in 1..Len(db.report) : Totals(db'.report[i]) = Totals(db.report[i])]_vars

\* a second cycle of the date has committed: the row of the date carries
\* counters of both cycles and totals that are not those of the dataset the
\* second cycle fetched
C37_Witness ==
    /\ outcome = "committed"
    /\ ReportSelectByAreaIdAndDate(db.report, "", today) # 0
    /\ LET r == db.report[ReportSelectByAreaIdAndDate(db.report, "", today)]
       IN  /\ Totals(r) # Totals(NewReport(fresh, ZeroCounters, today))
           /\ r.elements_created + r.elements_updated + r.elements_deleted > BulkSize

====
